---- MODULE Spec2Model ----
(***************************************************************************)
(* Function execution and credential injection of aipotheosis-labs/aci.    *)
(*                                                                         *)
(* One call of FunctionExecutor.execute at a time is followed through its  *)
(* steps: input preprocessing (base.py), request assembly and credential   *)
(* injection (rest_function_executor.py and its subclasses), the send, and *)
(* the mapping of the upstream answer to a FunctionExecutionResult.        *)
(***************************************************************************)
EXTENDS Integers, Sequences, FiniteSets, TLC

(***************************************************************************)
(* JSON values.  Every value is a tagged record so that values of          *)
(* different JSON types can be compared.  A Python dict is a function from *)
(* key strings to JSON values ("map" below); Obj wraps a map as a value.   *)
(***************************************************************************)
Null == [k |-> "null"]
Str(s) == [k |-> "str", s |-> s]
Obj(m) == [k |-> "obj", o |-> m]
EmptyMap == [x \in {} |-> Null]

IsNull(v) == v.k = "null"
IsObj(v) == v.k = "obj"

\* dict.get(key, {}) for a dict of dicts
GetMap(m, key) == IF key \in DOMAIN m /\ IsObj(m[key]) THEN m[key].o ELSE EmptyMap

\* d[key] = value
Put(m, key, v) == [x \in (DOMAIN m) \cup {key} |-> IF x = key THEN v ELSE m[x]]

(***************************************************************************)
(* JSON-Schema nodes of a function's parameters.  Every node carries the   *)
(* same fields: type ("object" or "string"), nullable (the type admits     *)
(* null), visible, hasDefault/default, properties, required and            *)
(* additionalProperties.                                                   *)
(***************************************************************************)
Leaf(vis, nullable, hasDef, def) ==
    [type |-> "string", nullable |-> nullable, visible |-> vis,
     hasDefault |-> hasDef, default |-> def,
     properties |-> EmptyMap, required |-> {}, additionalProperties |-> TRUE]

Object(vis, props, req, addl) ==
    [type |-> "object", nullable |-> FALSE, visible |-> vis,
     hasDefault |-> FALSE, default |-> Null,
     properties |-> props, required |-> req, additionalProperties |-> addl]

(***************************************************************************)
(* jsonschema.validate, for the schema keywords the function definitions   *)
(* use: type, properties, required, additionalProperties.  An error names  *)
(* the failing keyword, the path of the instance it is about and the       *)
(* property concerned.                                                     *)
(***************************************************************************)
RECURSIVE ValidationErrors(_, _, _)
ValidationErrors(inst, schema, path) ==
    IF IsNull(inst)
    THEN IF schema.nullable THEN {}
         ELSE {[validator |-> "type", path |-> path, key |-> ""]}
    ELSE IF schema.type = "string"
    THEN IF inst.k = "str" THEN {}
         ELSE {[validator |-> "type", path |-> path, key |-> ""]}
    ELSE IF ~IsObj(inst)
    THEN {[validator |-> "type", path |-> path, key |-> ""]}
    ELSE LET m == inst.o
             props == schema.properties
         IN  {[validator |-> "required", path |-> path, key |-> p] :
                  p \in schema.required \ DOMAIN m}
             \cup (IF schema.additionalProperties THEN {}
                   ELSE {[validator |-> "additionalProperties", path |-> path, key |-> p] :
                             p \in DOMAIN m \ DOMAIN props})
             \cup UNION {ValidationErrors(m[p], props[p], Append(path, p)) :
                             p \in DOMAIN m \cap DOMAIN props}

\* jsonschema.exceptions.best_match: an error higher up in the instance wins
BestMatch(errs) == CHOOSE e \in errs : \A o \in errs : Len(e.path) <= Len(o.path)

(***************************************************************************)
(* aipolabs.common.processor: the three helpers base.py calls.             *)
(***************************************************************************)
\* drops every property (and its subtree) annotated invisible
RECURSIVE filter_visible_properties(_)
filter_visible_properties(schema) ==
    IF schema.type # "object" THEN schema
    ELSE LET vis == {p \in DOMAIN schema.properties : schema.properties[p].visible}
         IN  [schema EXCEPT
                 !.properties = [p \in vis |-> filter_visible_properties(schema.properties[p])],
                 !.required = schema.required \cap vis]

\* walks the full schema; a required, invisible property absent from the
\* input at that path gets its default (an object-typed one is built from
\* the defaults below it)
RECURSIVE inject_required_but_invisible_defaults(_, _)
inject_required_but_invisible_defaults(schema, m) ==
    LET props == schema.properties
        injected == {p \in DOMAIN props :
                        /\ p \in schema.required
                        /\ ~props[p].visible
                        /\ p \notin DOMAIN m
                        /\ (props[p].type = "object" \/ props[p].hasDefault)}
    IN  [p \in (DOMAIN m) \cup injected |->
            IF p \in DOMAIN m
            THEN IF p \in DOMAIN props /\ props[p].type = "object" /\ IsObj(m[p])
                 THEN Obj(inject_required_but_invisible_defaults(props[p], m[p].o))
                 ELSE m[p]
            ELSE IF props[p].type = "object"
                 THEN Obj(inject_required_but_invisible_defaults(props[p], EmptyMap))
                 ELSE props[p].default]

\* recursively strips every key whose value is null
RECURSIVE remove_none_values(_)
remove_none_values(m) ==
    [p \in {x \in DOMAIN m : ~IsNull(m[x])} |->
        IF IsObj(m[p]) THEN Obj(remove_none_values(m[p].o)) ELSE m[p]]

(***************************************************************************)
(* Function definitions: the shapes of the test fixtures (visible and      *)
(* invisible parameters, nested objects, defaults), one feature each.      *)
(* The URL is a sequence of segments; a placeholder {name} is a segment of *)
(* its own.                                                                *)
(***************************************************************************)
Lit(s) == [t |-> "lit", s |-> s]
Placeholder(s) == [t |-> "ph", s |-> s]

Visible == TRUE
Invisible == FALSE

FunctionNames == {"HELLO_WORLD_NO_ARGS", "HELLO_WORLD_PATH", "HELLO_WORLD_WITH_ARGS",
                  "HELLO_WORLD_NESTED_ARGS", "HELLO_WORLD_NULLS"}

Parameters(name) ==
    CASE name = "HELLO_WORLD_NO_ARGS" ->
            Object(Visible, EmptyMap, {}, FALSE)
      [] name = "HELLO_WORLD_PATH" ->
            Object(Visible,
                   [p \in {"path", "header"} |->
                        IF p = "path"
                        THEN Object(Visible,
                                    [q \in {"userId"} |-> Leaf(Visible, FALSE, FALSE, Null)],
                                    {"userId"}, FALSE)
                        ELSE Object(Visible,
                                    [q \in {"X-CUSTOM-HEADER"} |->
                                         Leaf(Visible, FALSE, FALSE, Null)],
                                    {}, TRUE)],
                   {"path"}, TRUE)
      [] name = "HELLO_WORLD_WITH_ARGS" ->
            Object(Visible,
                   [p \in {"body"} |->
                        Object(Visible,
                               [q \in {"name", "greeting"} |->
                                    IF q = "name" THEN Leaf(Visible, FALSE, FALSE, Null)
                                    ELSE Leaf(Invisible, FALSE, TRUE, Str("default-greeting"))],
                               {"name", "greeting"}, TRUE)],
                   {"body"}, TRUE)
      [] name = "HELLO_WORLD_NESTED_ARGS" ->
            Object(Visible,
                   [p \in {"body", "query"} |->
                        IF p = "body"
                        THEN Object(Visible,
                                    [q \in {"person"} |->
                                         Object(Visible,
                                                [r \in {"name", "title"} |->
                                                     IF r = "name"
                                                     THEN Leaf(Visible, FALSE, FALSE, Null)
                                                     ELSE Leaf(Invisible, FALSE, TRUE,
                                                               Str("default-title"))],
                                                {"name", "title"}, TRUE)],
                                    {"person"}, TRUE)
                        ELSE Object(Invisible,
                                    [q \in {"lang"} |->
                                         Leaf(Invisible, FALSE, TRUE, Str("en"))],
                                    {"lang"}, TRUE)],
                   {"body", "query"}, TRUE)
      [] name = "HELLO_WORLD_NULLS" ->
            Object(Visible,
                   [p \in {"cookie", "query"} |->
                        IF p = "cookie"
                        THEN Object(Invisible,
                                    [q \in {"session"} |-> Leaf(Invisible, TRUE, TRUE, Null)],
                                    {"session"}, TRUE)
                        ELSE Object(Visible,
                                    [q \in {"lang"} |-> Leaf(Visible, TRUE, FALSE, Null)],
                                    {}, TRUE)],
                   {"cookie"}, TRUE)

\* RestMetadata of the function: method, server_url + path
ProtocolData(name) ==
    [method |-> IF name = "HELLO_WORLD_NO_ARGS" THEN "GET" ELSE "POST",
     url |-> IF name = "HELLO_WORLD_PATH"
             THEN <<Lit("https://api.mock.aipolabs.com/v1"), Lit("greet"),
                    Placeholder("userId")>>
             ELSE <<Lit("https://api.mock.aipolabs.com/v1"), Lit("hello_world")>>]

(***************************************************************************)
(* The caller inputs tried for a function: every object built from the     *)
(* schema's properties (a leaf takes a sample string, or null where the    *)
(* schema admits it; an invisible leaf may be supplied, an invisible       *)
(* object is never supplied), with or without an unknown top-level key.    *)
(***************************************************************************)
SampleValue == Str("John")
RandomValue == Str("random_value")

\* the names under which an app's security scheme places the credential
ApiKeyName == "X-Test-API-Key"
AuthorizationName == "Authorization"

\* the keys a caller may add to a request part on its own: the names the
\* security schemes use (the parts admit additional properties)
CallerKeys(part) ==
    CASE part = "header" -> {ApiKeyName, AuthorizationName}
      [] part \in {"query", "body", "cookie"} -> {ApiKeyName}
      [] OTHER -> {}

RECURSIVE Instances(_, _)
RECURSIVE InstanceMaps(_, _)
RECURSIVE MapsOver(_, _, _)
Instances(schema, extras) ==
    IF schema.type = "string"
    THEN {SampleValue} \cup (IF schema.nullable THEN {Null} ELSE {})
    ELSE {Obj(m) : m \in InstanceMaps(schema, extras)}

\* the maps with keys D: an instance of its schema under a key the schema
\* offers, the random value under any other key
MapsOver(D, props, offered) ==
    IF D = {} THEN {EmptyMap}
    ELSE LET p == CHOOSE x \in D : TRUE
             vals == IF p \in offered THEN Instances(props[p], CallerKeys(p))
                     ELSE {RandomValue}
         IN  {Put(m, p, v) : m \in MapsOver(D \ {p}, props, offered), v \in vals}

InstanceMaps(schema, extras) ==
    LET props == schema.properties
        offered == {p \in DOMAIN props : props[p].visible \/ props[p].type # "object"}
    IN  UNION {MapsOver(D, props, offered) : D \in SUBSET (offered \cup extras)}

\* how many unknown top-level keys the inputs may carry
MaxUnknownKeys == 1
UnknownKeyNames == <<"random_key", "another_key", "third_key">>
UnknownKeys == {UnknownKeyNames[i] : i \in 1..MaxUnknownKeys}

FunctionInputs(name) == InstanceMaps(Parameters(name), UnknownKeys)

(***************************************************************************)
(* Security schemes, credentials, apps and linked accounts.                *)
(***************************************************************************)
API_KEY == "api_key"
OAUTH2 == "oauth2"
NO_AUTH == "no_auth"
SecuritySchemes == {API_KEY, OAUTH2, NO_AUTH}

\* HttpLocation
HttpLocations == {"path", "query", "header", "cookie", "body"}

\* credential payloads (dicts): absent (None), empty ({}), API key, OAuth2
NoCredentials == [shape |-> "none"]
EmptyCredentials == [shape |-> "empty"]
APIKeyCredentials(key) == [shape |-> "api_key", secret_key |-> key]
OAuth2Credentials(token, expires) ==
    [shape |-> "oauth2", access_token |-> token, expires_at |-> expires]

\* Python truthiness of a credentials dict
Truthy(creds) == creds.shape \notin {"none", "empty"}

AppDefaultKey == APIKeyCredentials("test-api-key")
AppDefaultToken == OAuth2Credentials("app-access-token", 1)
UserKey == APIKeyCredentials("user-api-key")
UserToken == OAuth2Credentials("user-access-token", 1)
FreshUserToken == OAuth2Credentials("fresh-access-token", 3)

\* app.default_security_credentials_by_scheme, as scheme -> payload
DefaultCredentialsConfigs ==
    {[sch \in SecuritySchemes |-> NoCredentials],
     [sch \in SecuritySchemes |-> IF sch = API_KEY THEN AppDefaultKey ELSE NoCredentials],
     [sch \in SecuritySchemes |-> IF sch = OAUTH2 THEN AppDefaultToken ELSE NoCredentials],
     [sch \in SecuritySchemes |-> IF sch = API_KEY THEN EmptyCredentials ELSE NoCredentials]}

\* an App: its api_key security scheme {in, name} and its default credentials
Apps ==
    {[name |-> "AIPOLABS_TEST",
      api_key_scheme |-> [location |-> loc, name |-> ApiKeyName],
      default_security_credentials_by_scheme |-> d] :
        loc \in HttpLocations, d \in DefaultCredentialsConfigs}

LinkedAccounts ==
    {[security_scheme |-> API_KEY, security_credentials |-> EmptyCredentials],
     [security_scheme |-> API_KEY, security_credentials |-> UserKey],
     [security_scheme |-> OAUTH2, security_credentials |-> EmptyCredentials],
     [security_scheme |-> OAUTH2, security_credentials |-> UserToken],
     [security_scheme |-> OAUTH2, security_credentials |-> FreshUserToken],
     [security_scheme |-> NO_AUTH, security_credentials |-> EmptyCredentials],
     \* scheme and credentials that do not go together (update_linked_account
     \* takes either without looking at the other)
     [security_scheme |-> API_KEY, security_credentials |-> UserToken],
     [security_scheme |-> OAUTH2, security_credentials |-> UserKey]}

\* the executor classes
RestFunctionExecutor == "RestFunctionExecutor"
RestAPIKeyFunctionExecutor == "RestAPIKeyFunctionExecutor"
RestOAuth2FunctionExecutor == "RestOAuth2FunctionExecutor"
RestHTTPBasicFunctionExecutor == "RestHTTPBasicFunctionExecutor"

\* HTTP Basic: the scheme {location, name, prefix} of an app and the
\* credentials {username, password} handed to the executor
HTTP_BASIC == "http_basic"
HTTPBasicCredentials(username, password) ==
    [shape |-> "http_basic", username |-> username, password |-> password]
BasicUser == HTTPBasicCredentials("user", "pass")

HTTPBasicApps ==
    {[name |-> "HTTP_BASIC_TEST",
      http_basic_scheme |-> [location |-> loc, name |-> AuthorizationName, prefix |-> pre],
      default_security_credentials_by_scheme |->
          [sch \in SecuritySchemes \cup {HTTP_BASIC} |-> NoCredentials]] :
        loc \in HttpLocations, pre \in {"Basic", ""}}

HTTPBasicLinkedAccount ==
    [security_scheme |-> HTTP_BASIC, security_credentials |-> BasicUser]

(***************************************************************************)
(* Exceptions and results.                                                 *)
(***************************************************************************)
NoMessage == [validator |-> "", path |-> <<>>, key |-> ""]
NoOutcome == [kind |-> "none"]
Raised(exc, msg) == [kind |-> "raised", exc |-> exc, msg |-> msg]
\* FunctionExecutionResult(success=..., data=..., error=...); None is Null
FunctionExecutionResult(success, data, error) ==
    [kind |-> "result", success |-> success, data |-> data, error |-> error]

\* str(x) of a parsed JSON body, of an HTTPStatusError, of a send exception
PyStr(v) == [k |-> "pystr", of |-> v]
StatusErrorText(status) == [k |-> "status_text", status |-> status]
ExceptionText(exc) == [k |-> "exc_text", exc |-> exc]

(***************************************************************************)
(* get_executor: the route's (by protocol and security scheme) and the     *)
(* factory's (by protocol alone).  The protocol is REST throughout.        *)
(***************************************************************************)
get_executor(security_scheme) ==
    CASE security_scheme = API_KEY -> [exc |-> "", executor |-> RestAPIKeyFunctionExecutor]
      [] security_scheme = OAUTH2 -> [exc |-> "", executor |-> RestOAuth2FunctionExecutor]
      [] OTHER -> [exc |-> "NoImplementationFound", executor |-> "none"]

factory_get_executor == [exc |-> "", executor |-> RestFunctionExecutor]

(***************************************************************************)
(* FunctionExecutor._preprocess_function_input: validate against the       *)
(* visible parameters, inject the invisible defaults, remove None values.  *)
(* steps records what was done, in order.                                  *)
(***************************************************************************)
\* defaults injected and None values removed before the input is validated
preprocess_inject_first(function, function_input) ==
    LET injected == remove_none_values(
                        inject_required_but_invisible_defaults(Parameters(function),
                                                               function_input))
        errs == ValidationErrors(Obj(injected),
                                 filter_visible_properties(Parameters(function)), <<>>)
    IN  IF errs # {}
        THEN [exc |-> "InvalidFunctionInput", msg |-> BestMatch(errs),
              function_input |-> injected,
              steps |-> <<"inject_defaults", "remove_none", "validate">>]
        ELSE [exc |-> "", msg |-> NoMessage, function_input |-> injected,
              steps |-> <<"inject_defaults", "remove_none", "validate">>]

\* the defaults of the invisible parameters are never injected
preprocess_without_defaults(function, function_input) ==
    LET errs == ValidationErrors(Obj(function_input),
                                 filter_visible_properties(Parameters(function)), <<>>)
    IN  IF errs # {}
        THEN [exc |-> "InvalidFunctionInput", msg |-> BestMatch(errs),
              function_input |-> function_input, steps |-> <<"validate">>]
        ELSE [exc |-> "", msg |-> NoMessage,
              function_input |-> remove_none_values(function_input),
              steps |-> <<"validate", "remove_none">>]

preprocess_function_input(function, function_input) ==
    LET errs == ValidationErrors(Obj(function_input),
                                 filter_visible_properties(Parameters(function)), <<>>)
    IN  IF errs # {}
        THEN [exc |-> "InvalidFunctionInput", msg |-> BestMatch(errs),
              function_input |-> function_input, steps |-> <<"validate">>]
        ELSE [exc |-> "", msg |-> NoMessage,
              function_input |->
                  remove_none_values(
                      inject_required_but_invisible_defaults(Parameters(function),
                                                             function_input)),
              steps |-> <<"validate", "inject_defaults", "remove_none">>]

(***************************************************************************)
(* Credential injection.  parts is the request's mutable dictionaries      *)
(* [headers, query, body, cookies]; the result carries the exception       *)
(* raised (if any), the parts after injection and the credentials that     *)
(* were resolved, with where they came from.                               *)
(***************************************************************************)
Injected(parts, creds, from) ==
    [exc |-> "", parts |-> parts, credentials |-> creds, from |-> from, log |-> ""]
InjectionRaised(exc, parts, creds, from) ==
    [exc |-> exc, parts |-> parts, credentials |-> creds, from |-> from, log |-> ""]

\* pydantic model_validate of a credentials payload against a credentials model
ModelValidates(shape, creds) == creds.shape = shape

\* the query case writes into the headers
WriteApiKey_misplaced(scheme, secret_key, parts) ==
    CASE scheme.location \in {"header", "query"} ->
            [parts EXCEPT !.headers = Put(@, scheme.name, Str(secret_key))]
      [] scheme.location = "body" ->
            [parts EXCEPT !.body = Put(@, scheme.name, Str(secret_key))]
      [] scheme.location = "cookie" ->
            [parts EXCEPT !.cookies = Put(@, scheme.name, Str(secret_key))]

\* d.setdefault(key, value): a key already present keeps its value
PutIfAbsent(m, key, v) == IF key \in DOMAIN m THEN m ELSE Put(m, key, v)

\* the secret is written only where the caller supplied nothing
WriteApiKey_keeping(scheme, secret_key, parts) ==
    CASE scheme.location = "header" ->
            [parts EXCEPT !.headers = PutIfAbsent(@, scheme.name, Str(secret_key))]
      [] scheme.location = "query" ->
            [parts EXCEPT !.query = PutIfAbsent(@, scheme.name, Str(secret_key))]
      [] scheme.location = "body" ->
            [parts EXCEPT !.body = PutIfAbsent(@, scheme.name, Str(secret_key))]
      [] scheme.location = "cookie" ->
            [parts EXCEPT !.cookies = PutIfAbsent(@, scheme.name, Str(secret_key))]

\* match api_key_scheme.location: ...
WriteApiKey(scheme, secret_key, parts) ==
    CASE scheme.location = "header" ->
            [parts EXCEPT !.headers = Put(@, scheme.name, Str(secret_key))]
      [] scheme.location = "query" ->
            [parts EXCEPT !.query = Put(@, scheme.name, Str(secret_key))]
      [] scheme.location = "body" ->
            [parts EXCEPT !.body = Put(@, scheme.name, Str(secret_key))]
      [] scheme.location = "cookie" ->
            [parts EXCEPT !.cookies = Put(@, scheme.name, Str(secret_key))]

SupportedApiKeyLocations == {"header", "query", "body", "cookie"}

\* RestFunctionExecutor._inject_api_key
inject_api_key(app, linked_account, parts) ==
    LET api_key_scheme == app.api_key_scheme
        security_credentials ==
            app.default_security_credentials_by_scheme[linked_account.security_scheme]
    IN  IF security_credentials.shape = "none"
        THEN InjectionRaised("NoImplementationFound", parts, NoCredentials, "none")
        ELSE IF ~ModelValidates("api_key", security_credentials)
        THEN InjectionRaised("ValidationError", parts, NoCredentials, "none")
        ELSE IF api_key_scheme.location \notin SupportedApiKeyLocations
        THEN InjectionRaised("NoImplementationFound", parts,
                             security_credentials, "app_default")
        ELSE Injected(WriteApiKey(api_key_scheme, security_credentials.secret_key, parts),
                      security_credentials, "app_default")

\* RestFunctionExecutor._inject_oauth2_access_token: its body is `pass`
inject_oauth2_access_token(app, linked_account, parts) ==
    Injected(parts, NoCredentials, "none")

\* RestAPIKeyFunctionExecutor._inject_credentials
RestAPIKey_inject_credentials(app, linked_account, parts) ==
    LET security_credentials ==
            app.default_security_credentials_by_scheme[linked_account.security_scheme]
        api_key_scheme == app.api_key_scheme
    IN  IF security_credentials.shape = "none"
        THEN InjectionRaised("NoImplementationFound", parts, NoCredentials, "none")
        ELSE IF ~ModelValidates("api_key", security_credentials)
        THEN InjectionRaised("ValidationError", parts, NoCredentials, "none")
        ELSE IF api_key_scheme.location \notin SupportedApiKeyLocations
        THEN InjectionRaised("NoImplementationFound", parts,
                             security_credentials, "app_default")
        ELSE Injected(WriteApiKey(api_key_scheme, security_credentials.secret_key, parts),
                      security_credentials, "app_default")

\* the token counts as expired from expires_at on
access_token_is_expired_at_deadline(oauth2_credentials, time) ==
    oauth2_credentials.expires_at <= time

\* oauth2_credentials.expires_at < int(time.time())
access_token_is_expired(oauth2_credentials, time) ==
    oauth2_credentials.expires_at < time

\* what _inject_credentials logs about the access token
TokenExpiredLog == "access token expired"
TokenValidLog == "access token is valid"

\* an expired access token stops the call
RestOAuth2_inject_credentials_refusing(app, linked_account, parts, time) ==
    LET default == app.default_security_credentials_by_scheme[linked_account.security_scheme]
        from == IF Truthy(linked_account.security_credentials) THEN "linked_account"
                ELSE IF Truthy(default) THEN "app_default"
                ELSE "none"
        oauth2_credentials ==
            CASE from = "linked_account" -> linked_account.security_credentials
              [] from = "app_default" -> default
              [] OTHER -> NoCredentials
    IN  IF from = "none"
        THEN InjectionRaised("NoImplementationFound", parts, NoCredentials, "none")
        ELSE IF ~ModelValidates("oauth2", oauth2_credentials)
        THEN InjectionRaised("ValidationError", parts, NoCredentials, "none")
        ELSE IF access_token_is_expired(oauth2_credentials, time)
        THEN [InjectionRaised("AccessTokenExpired", parts, oauth2_credentials, from)
                 EXCEPT !.log = TokenExpiredLog]
        ELSE [Injected(parts, oauth2_credentials, from) EXCEPT !.log = TokenValidLog]

\* RestOAuth2FunctionExecutor._inject_credentials: resolves and validates the
\* credentials, logs whether the access token is expired, writes nothing
RestOAuth2_inject_credentials(app, linked_account, parts, time) ==
    LET default == app.default_security_credentials_by_scheme[linked_account.security_scheme]
        from == IF Truthy(linked_account.security_credentials) THEN "linked_account"
                ELSE IF Truthy(default) THEN "app_default"
                ELSE "none"
        oauth2_credentials ==
            CASE from = "linked_account" -> linked_account.security_credentials
              [] from = "app_default" -> default
              [] OTHER -> NoCredentials
    IN  IF from = "none"
        THEN InjectionRaised("NoImplementationFound", parts, NoCredentials, "none")
        ELSE IF ~ModelValidates("oauth2", oauth2_credentials)
        THEN InjectionRaised("ValidationError", parts, NoCredentials, "none")
        ELSE [Injected(parts, oauth2_credentials, from) EXCEPT
                 !.log = IF access_token_is_expired(oauth2_credentials, time)
                         THEN TokenExpiredLog ELSE TokenValidLog]

\* base64.b64encode(f"{username}:{password}".encode("utf-8")).decode("utf-8")
B64UserPass(creds) == "base64(" \o creds.username \o ":" \o creds.password \o ")"

\* an unsupported location is passed over: nothing is written, nothing raised
RestHTTPBasic_inject_credentials_skipping(security_scheme, security_credentials, parts) ==
    IF security_scheme.location # "header"
    THEN Injected(parts, security_credentials, "none")
    ELSE Injected([parts EXCEPT !.headers =
                      Put(@, security_scheme.name,
                          Str(IF security_scheme.prefix # ""
                              THEN security_scheme.prefix \o " " \o B64UserPass(security_credentials)
                              ELSE B64UserPass(security_credentials)))],
                  security_credentials, "none")

\* RestHTTPBasicFunctionExecutor._inject_credentials (the credentials are
\* handed to the executor, it resolves none itself)
RestHTTPBasic_inject_credentials(security_scheme, security_credentials, parts) ==
    IF security_scheme.location # "header"
    THEN InjectionRaised("NoImplementationFound", parts, security_credentials, "none")
    ELSE Injected([parts EXCEPT !.headers =
                      Put(@, security_scheme.name,
                          Str(IF security_scheme.prefix # ""
                              THEN security_scheme.prefix \o " " \o B64UserPass(security_credentials)
                              ELSE B64UserPass(security_credentials)))],
                  security_credentials, "none")

(***************************************************************************)
(* security_credentials_manager: credential resolution on its own.         *)
(***************************************************************************)
Resolved(creds, from) == [exc |-> "", credentials |-> creds, from |-> from]
ResolutionRaised(exc) == [exc |-> exc, credentials |-> NoCredentials, from |-> "none"]

get_api_key_credentials(app, linked_account) ==
    LET security_credentials ==
            app.default_security_credentials_by_scheme[linked_account.security_scheme]
    IN  IF ~Truthy(security_credentials)
        THEN ResolutionRaised("NoImplementationFound")
        ELSE IF ~ModelValidates("api_key", security_credentials)
        THEN ResolutionRaised("ValidationError")
        ELSE Resolved(security_credentials, "app_default")

get_oauth2_credentials(app, linked_account) ==
    LET default == app.default_security_credentials_by_scheme[linked_account.security_scheme]
        from == IF Truthy(linked_account.security_credentials) THEN "linked_account"
                ELSE IF Truthy(default) THEN "app_default"
                ELSE "none"
        oauth2_credentials ==
            CASE from = "linked_account" -> linked_account.security_credentials
              [] from = "app_default" -> default
              [] OTHER -> NoCredentials
    IN  IF from = "none"
        THEN ResolutionRaised("NoImplementationFound")
        ELSE IF ~ModelValidates("oauth2", oauth2_credentials)
        THEN ResolutionRaised("ValidationError")
        ELSE Resolved(oauth2_credentials, from)

get_security_credentials(app, linked_account) ==
    CASE linked_account.security_scheme = API_KEY ->
            get_api_key_credentials(app, linked_account)
      [] linked_account.security_scheme = OAUTH2 ->
            get_oauth2_credentials(app, linked_account)
      [] OTHER -> ResolutionRaised("NoImplementationFound")

\* the security-scheme dispatch inside RestFunctionExecutor._execute
dispatch_injection(app, linked_account, parts) ==
    CASE linked_account.security_scheme = API_KEY ->
            inject_api_key(app, linked_account, parts)
      [] linked_account.security_scheme = OAUTH2 ->
            inject_oauth2_access_token(app, linked_account, parts)
      [] OTHER ->
            InjectionRaised("NoImplementationFound", parts, NoCredentials, "none")

\* the injection step of _execute for each executor class: the base class
\* dispatches on the scheme itself, a subclass supplies _inject_credentials
inject_credentials(executor, app, linked_account, parts, time) ==
    CASE executor = RestAPIKeyFunctionExecutor ->
            RestAPIKey_inject_credentials(app, linked_account, parts)
      [] executor = RestOAuth2FunctionExecutor ->
            RestOAuth2_inject_credentials(app, linked_account, parts, time)
      [] executor = RestHTTPBasicFunctionExecutor ->
            RestHTTPBasic_inject_credentials(app.http_basic_scheme,
                                             linked_account.security_credentials, parts)
      [] OTHER ->
            dispatch_injection(app, linked_account, parts)

(***************************************************************************)
(* RestFunctionExecutor._execute, up to the construction of the request.   *)
(***************************************************************************)
\* str(path_param_value)
PathValueText(v) == IF v.k = "str" THEN v.s ELSE "<non-string>"

\* the text "{name}"
Braced(name) == "{" \o name \o "}"

\* the names that occur as placeholders in some function's path
PathParamNames == {"userId", "org"}

\* A string as str.replace scans it: a text that reads {name} is found by a
\* replace of that name, any other text is not.
TextPieces(s) ==
    IF \E n \in PathParamNames : s = Braced(n)
    THEN <<Placeholder(CHOOSE n \in PathParamNames : s = Braced(n))>>
    ELSE <<Lit(s)>>

\* url.replace("{name}", text): every occurrence in the url as it is now
RECURSIVE Replace(_, _, _)
Replace(url, name, text) ==
    IF url = <<>> THEN <<>>
    ELSE (IF Head(url) = Placeholder(name) THEN text ELSE <<Head(url)>>)
         \o Replace(Tail(url), name, text)

\* for path_param_name, path_param_value in path.items(): url = url.replace(...)
RECURSIVE SubstituteItems(_, _)
SubstituteItems(url, items) ==
    IF items = <<>> THEN url
    ELSE SubstituteItems(Replace(url, items[1].name,
                                 TextPieces(PathValueText(items[1].value))),
                         Tail(items))

\* path.items() of a dict, in one fixed order of its keys
RECURSIVE ItemsOf(_)
ItemsOf(path) ==
    IF DOMAIN path = {} THEN <<>>
    ELSE LET n == CHOOSE x \in DOMAIN path : TRUE
         IN  <<[name |-> n, value |-> path[n]]>>
             \o ItemsOf([x \in DOMAIN path \ {n} |-> path[x]])

SubstitutePath(url, path) == SubstituteItems(url, ItemsOf(path))

\* x if x else None
OrNone(m) == IF m # EmptyMap THEN Obj(m) ELSE Null

NoRequest == [method |-> "none"]

build_request(executor, function, function_input, app, linked_account, time) ==
    LET path == GetMap(function_input, "path")
        parts == [headers |-> GetMap(function_input, "header"),
                  query |-> GetMap(function_input, "query"),
                  body |-> GetMap(function_input, "body"),
                  cookies |-> GetMap(function_input, "cookie")]
        protocol_data == ProtocolData(function)
        url == SubstitutePath(protocol_data.url, path)
        inj == inject_credentials(executor, app, linked_account, parts, time)
    IN  [exc |-> inj.exc,
         before |-> parts,
         injection |-> inj,
         request |-> IF inj.exc # "" THEN NoRequest
                     ELSE [method |-> protocol_data.method,
                           url |-> url,
                           params |-> OrNone(inj.parts.query),
                           headers |-> OrNone(inj.parts.headers),
                           cookies |-> OrNone(inj.parts.cookies),
                           json |-> OrNone(inj.parts.body)]]

(***************************************************************************)
(* What the upstream can do with a request: client.send raises, or a       *)
(* response with a status and a body arrives.  A body is empty, JSON text  *)
(* (with the value it parses to) or text that is not JSON.                 *)
(***************************************************************************)
SendExceptions == {"ConnectError", "ReadTimeout"}

Statuses == {200, 201, 302, 404}

EmptyContent == [c |-> "empty"]
JsonContent(v) == [c |-> "json", v |-> v]
TextContent(t) == [c |-> "text", t |-> t]

Contents ==
    {EmptyContent,
     JsonContent(Obj([x \in {"message"} |-> Str("not found")])),
     JsonContent(Null),
     TextContent("Service Unavailable")}

Responses == {[status_code |-> st, content |-> c] : st \in Statuses, c \in Contents}
NoResponse == [status_code |-> 0]

\* only 4xx and 5xx count as errors
IsSuccess_below_400(response) == response.status_code < 400

\* httpx: Response.is_success; raise_for_status raises HTTPStatusError otherwise
IsSuccess(response) == response.status_code \in 200..299

\* response.json() succeeds
ParsesAsJson(response) == response.content.c = "json"

\* RestFunctionExecutor._get_response_data
get_response_data(response) ==
    CASE response.content.c = "empty" -> Obj(EmptyMap)
      [] response.content.c = "json" -> response.content.v
      [] OTHER -> Str(response.content.t)

\* RestFunctionExecutor._get_error_message
get_error_message(response) ==
    IF ParsesAsJson(response)
    THEN PyStr(response.content.v)
    ELSE StatusErrorText(response.status_code)

\* a send failure that escapes instead of being turned into a result
on_send_failure_reraised(e) == Raised(e, NoMessage)

\* except Exception as e: return FunctionExecutionResult(success=False, error=str(e))
on_send_failure(e) == FunctionExecutionResult(FALSE, Null, ExceptionText(e))

\* raise_for_status left uncaught: a non-2xx response raises HTTPStatusError
on_response_uncaught(response) ==
    IF ~IsSuccess(response)
    THEN Raised("HTTPStatusError", NoMessage)
    ELSE FunctionExecutionResult(TRUE, get_response_data(response), Null)

\* the rest of _execute once a response is in hand
on_response(response) ==
    IF ~IsSuccess(response)
    THEN FunctionExecutionResult(FALSE, Null, get_error_message(response))
    ELSE FunctionExecutionResult(TRUE, get_response_data(response), Null)

(***************************************************************************)
(* The execute route's lookups: the function, the app configuration of the *)
(* project and the linked account of the owner, each found or not, the     *)
(* last two enabled or not.                                                *)
(***************************************************************************)
NotFound == [found |-> FALSE]
Row(enabled) == [found |-> TRUE, enabled |-> enabled]

RouteLookups ==
    {[function |-> f, app_configuration |-> c, linked_account |-> l] :
        f \in {NotFound, Row(TRUE)},
        c \in {NotFound, Row(TRUE), Row(FALSE)},
        l \in {NotFound, Row(TRUE), Row(FALSE)}}

\* the route without its check of linked_account.enabled
route_checks_ignoring_disabled_account(lookup) ==
    IF ~lookup.function.found THEN "FunctionNotFound"
    ELSE IF ~lookup.app_configuration.found THEN "AppConfigurationNotFound"
    ELSE IF ~lookup.app_configuration.enabled THEN "AppConfigurationDisabled"
    ELSE IF ~lookup.linked_account.found THEN "LinkedAccountNotFound"
    ELSE ""

\* the checks of the route before it obtains an executor: the exception it
\* raises, "" if none
route_checks(lookup) ==
    IF ~lookup.function.found THEN "FunctionNotFound"
    ELSE IF ~lookup.app_configuration.found THEN "AppConfigurationNotFound"
    ELSE IF ~lookup.app_configuration.enabled THEN "AppConfigurationDisabled"
    ELSE IF ~lookup.linked_account.found THEN "LinkedAccountNotFound"
    ELSE IF ~lookup.linked_account.enabled THEN "LinkedAccountDisabled"
    ELSE ""

(***************************************************************************)
(* State: one call of execute, from the route (or a direct caller) to the  *)
(* returned result or the raised exception.                                *)
(***************************************************************************)
VARIABLES
    pc,             \* "idle", "preprocess", "execute", "send", "respond", "done"
    call,           \* the arguments of the call and the executor chosen for it
    function_input, \* the function input as execute holds it
    built,          \* what _execute assembled: parts, injection, request
    response,       \* the upstream response received
    outcome,        \* what the call ended with: a result or a raised exception
    steps,          \* the steps the call has performed so far, in order
    sent,           \* how many times the call handed a request to client.send
    send_error,     \* the exception client.send raised, "" if none
    resolution,     \* the last get_security_credentials call and its result
    linked_accounts, \* the rows of the linked_accounts table
    next_id,        \* the id the next row created gets
    last_op,        \* the last operation on the table and what it returned
    time_now,       \* int(time.time())
    refresher,      \* per concurrent call: where it is in refreshing the token
    issued          \* how many tokens the provider has issued on refresh

executionVars == <<pc, call, function_input, built, response, outcome, steps, sent,
                   send_error, resolution>>
storeVars == <<linked_accounts, next_id, last_op>>
tokenVars == <<time_now, refresher, issued>>

\* the URL construction of _execute, one loop iteration at a time
VARIABLES
    url_template,   \* server_url + path of the function, placeholders included
    path_items,     \* path.items() still to be replaced, in iteration order
    path_input,     \* the path parameters the call came with, in iteration order
    request_url,    \* the local variable url
    templating_pc   \* "idle", "loop", "done"

templatingVars == <<url_template, path_items, path_input, request_url, templating_pc>>

TemplatingIdle ==
    /\ url_template = <<>>
    /\ path_items = <<>>
    /\ path_input = <<>>
    /\ request_url = <<>>
    /\ templating_pc = "idle"

\* one call of OAuth2Manager.parse_oauth2_security_credentials
VARIABLES
    parsing_app,    \* the app (provider) the token response came from
    parsing_response, \* the token response handed in
    parsed_at,      \* int(time.time()) at the call
    parsing_result  \* what the call returned or raised, NotParsed before it

parsingVars == <<parsing_app, parsing_response, parsed_at, parsing_result>>

NotParsed == [exc |-> "none"]

ParsingIdle ==
    /\ parsing_app = ""
    /\ parsing_response = [kind |-> "none"]
    /\ parsed_at = 0
    /\ parsing_result = NotParsed

\* the monthly API quota of one organization (billing.py)
VARIABLES
    api_quota_monthly_used, \* per project of the org: Project.api_quota_monthly_used
    api_quota_last_reset,   \* per project of the org: Project.api_quota_last_reset
    current_period_start,   \* subscription.current_period_start
    quota_requests          \* per request slot: the quota-counted request in it

quotaVars == <<api_quota_monthly_used, api_quota_last_reset, current_period_start,
               quota_requests>>

QuotaProjects == {"project_1", "project_2"}
QuotaRequests == {"request_1", "request_2"}
NoRequestYet == [pc |-> "none"]

QuotaIdle ==
    /\ api_quota_monthly_used = [p \in QuotaProjects |-> 0]
    /\ api_quota_last_reset = [p \in QuotaProjects |-> 0]
    /\ current_period_start = 0
    /\ quota_requests = [r \in QuotaRequests |-> NoRequestYet]

\* projects and their agents (routes/projects.py, routes/webhooks.py)
VARIABLES
    projects,         \* the committed rows of the projects table: [id, org_id]
    agents,           \* the committed rows of the agents table: [project_id]
    next_project_id,  \* the id the next project created gets
    project_requests  \* per request slot: the request in it and how far it got

projectVars == <<projects, agents, next_project_id, project_requests>>

ProjectRequests == {"request_1", "request_2"}

ProjectsIdle ==
    /\ projects = {}
    /\ agents = {}
    /\ next_project_id = 1
    /\ project_requests = [r \in ProjectRequests |-> NoRequestYet]

extraVars == <<templatingVars, parsingVars, quotaVars, projectVars>>
ExtraIdle == TemplatingIdle /\ ParsingIdle /\ QuotaIdle /\ ProjectsIdle

vars == <<executionVars, storeVars, tokenVars, extraVars>>

\* the concurrent calls that may refresh the token of one linked account
Callers == {"call_1", "call_2"}
NoOp == [op |-> "none"]
IdleRefresher == [pc |-> "idle"]

NoCall == [executor |-> "none"]
NotBuilt == [exc |-> "none"]
NoResolution == [exc |-> "none"]

CoreIdle ==
    /\ pc = "idle"
    /\ call = NoCall
    /\ function_input = EmptyMap
    /\ built = NotBuilt
    /\ response = NoResponse
    /\ outcome = NoOutcome
    /\ steps = <<>>
    /\ sent = 0
    /\ send_error = ""
    /\ resolution = NoResolution
    /\ linked_accounts = {}
    /\ next_id = 1
    /\ last_op = NoOp
    /\ refresher = [c \in Callers |-> IdleRefresher]
    /\ issued = 0

\* int(time.time()) while the call runs
CallTime == 2

Init == CoreIdle /\ time_now = CallTime /\ ExtraIdle

\* routes/functions.py execute: get_executor(protocol, scheme).execute(...)
RouteExecute ==
    /\ pc = "idle"
    /\ \E lookup \in RouteLookups :
         LET refused == route_checks(lookup)
         IN  IF refused # ""
             THEN /\ call' = [executor |-> "none", via |-> "route", lookup |-> lookup]
                  /\ function_input' = function_input
                  /\ pc' = "done"
                  /\ outcome' = Raised(refused, NoMessage)
             ELSE \E f \in FunctionNames, app \in Apps, la \in LinkedAccounts :
                  \E input \in FunctionInputs(f) :
                    LET ex == get_executor(la.security_scheme)
                    IN  /\ call' = [executor |-> ex.executor, via |-> "route",
                                    lookup |-> lookup, function |-> f,
                                    function_input |-> input, app |-> app,
                                    linked_account |-> la]
                        /\ function_input' = input
                        /\ IF ex.exc # ""
                           THEN /\ pc' = "done"
                                /\ outcome' = Raised(ex.exc, NoMessage)
                           ELSE /\ pc' = "preprocess"
                                /\ outcome' = outcome
    /\ UNCHANGED <<built, response, steps, sent, send_error, resolution>>
    /\ UNCHANGED <<storeVars, tokenVars, extraVars>>

\* factory.get_executor(protocol).execute(...)
FactoryExecute ==
    /\ pc = "idle"
    /\ \E f \in FunctionNames, app \in Apps, la \in LinkedAccounts :
       \E input \in FunctionInputs(f) :
         /\ call' = [executor |-> factory_get_executor.executor, via |-> "factory",
                     function |-> f, function_input |-> input, app |-> app,
                     linked_account |-> la]
         /\ function_input' = input
    /\ pc' = "preprocess"
    /\ UNCHANGED <<built, response, outcome, steps, sent, send_error, resolution>>
    /\ UNCHANGED <<storeVars, tokenVars, extraVars>>

\* RestHTTPBasicFunctionExecutor(...).execute(...)
HTTPBasicFunctions == {"HELLO_WORLD_NO_ARGS", "HELLO_WORLD_PATH"}
HttpBasicExecute ==
    /\ pc = "idle"
    /\ \E f \in HTTPBasicFunctions, app \in HTTPBasicApps :
       \E input \in FunctionInputs(f) :
         /\ call' = [executor |-> RestHTTPBasicFunctionExecutor, via |-> "direct",
                     function |-> f, function_input |-> input, app |-> app,
                     linked_account |-> HTTPBasicLinkedAccount]
         /\ function_input' = input
    /\ pc' = "preprocess"
    /\ UNCHANGED <<built, response, outcome, steps, sent, send_error, resolution>>
    /\ UNCHANGED <<storeVars, tokenVars, extraVars>>

\* FunctionExecutor.execute: function_input = self._preprocess_function_input(...)
Preprocess ==
    /\ pc = "preprocess"
    /\ LET r == preprocess_function_input(call.function, function_input)
       IN  /\ function_input' = r.function_input
           /\ steps' = steps \o r.steps
           /\ IF r.exc # ""
              THEN /\ pc' = "done"
                   /\ outcome' = Raised(r.exc, r.msg)
              ELSE /\ pc' = "execute"
                   /\ outcome' = outcome
    /\ UNCHANGED <<call, built, response, sent, send_error, resolution>>
    /\ UNCHANGED <<storeVars, tokenVars, extraVars>>

\* RestFunctionExecutor._execute: parts, URL, credential injection, request
BuildRequest ==
    /\ pc = "execute"
    /\ LET b == build_request(call.executor, call.function, function_input,
                              call.app, call.linked_account, time_now)
       IN  /\ built' = b
           /\ steps' = steps \o
                  (IF b.injection.from # "none" THEN <<"resolve_credentials">> ELSE <<>>) \o
                  (IF b.exc = "" THEN <<"inject_credentials", "build_request">> ELSE <<>>)
           /\ IF b.exc # ""
              THEN /\ pc' = "done"
                   /\ outcome' = Raised(b.exc, NoMessage)
              ELSE /\ pc' = "send"
                   /\ outcome' = outcome
    /\ UNCHANGED <<call, function_input, response, sent, send_error, resolution>>
    /\ UNCHANGED <<storeVars, tokenVars, extraVars>>

\* a failed send is tried once more before the failure is returned
SendFails_retried ==
    /\ pc = "send"
    /\ \E e \in SendExceptions :
          /\ send_error' = e
          /\ outcome' = IF sent = 0 THEN outcome ELSE on_send_failure(e)
    /\ sent' = sent + 1
    /\ steps' = Append(steps, "send")
    /\ pc' = IF sent = 0 THEN "send" ELSE "done"
    /\ UNCHANGED <<call, function_input, built, response, resolution>>
    /\ UNCHANGED <<storeVars, tokenVars, extraVars>>

\* client.send(request) raises
SendFails ==
    /\ pc = "send"
    /\ \E e \in SendExceptions :
          /\ send_error' = e
          /\ outcome' = on_send_failure(e)
    /\ sent' = sent + 1
    /\ steps' = Append(steps, "send")
    /\ pc' = "done"
    /\ UNCHANGED <<call, function_input, built, response, resolution>>
    /\ UNCHANGED <<storeVars, tokenVars, extraVars>>

\* client.send(request) returns a response
SendResponds ==
    /\ pc = "send"
    /\ \E r \in Responses : response' = r
    /\ sent' = sent + 1
    /\ steps' = Append(steps, "send")
    /\ pc' = "respond"
    /\ UNCHANGED <<call, function_input, built, outcome, send_error, resolution>>
    /\ UNCHANGED <<storeVars, tokenVars, extraVars>>

\* raise_for_status, _get_error_message / _get_response_data, return
HandleResponse ==
    /\ pc = "respond"
    /\ outcome' = on_response(response)
    /\ pc' = "done"
    /\ UNCHANGED <<call, function_input, built, response, steps, sent, send_error, resolution>>
    /\ UNCHANGED <<storeVars, tokenVars, extraVars>>

\* the call is over; the next one starts afresh
Return ==
    /\ pc = "done"
    /\ pc' = "idle"
    /\ call' = NoCall
    /\ function_input' = EmptyMap
    /\ built' = NotBuilt
    /\ response' = NoResponse
    /\ outcome' = NoOutcome
    /\ steps' = <<>>
    /\ sent' = 0
    /\ send_error' = ""
    /\ resolution' = NoResolution
    /\ UNCHANGED <<storeVars, tokenVars, extraVars>>

\* security_credentials_manager.get_security_credentials(app, linked_account)
GetSecurityCredentials ==
    /\ pc = "idle"
    /\ \E app \in Apps, la \in LinkedAccounts :
          resolution' = [app |-> app, linked_account |-> la,
                         result |-> get_security_credentials(app, la)]
    /\ pc' = "done"
    /\ UNCHANGED <<call, function_input, built, response, outcome, steps, sent, send_error>>
    /\ UNCHANGED <<storeVars, tokenVars, extraVars>>

Next ==
    \/ RouteExecute
    \/ FactoryExecute
    \/ HttpBasicExecute
    \/ Preprocess
    \/ BuildRequest
    \/ SendFails
    \/ SendResponds
    \/ HandleResponse
    \/ GetSecurityCredentials
    \/ Return

Spec == Init /\ [][Next]_vars

(***************************************************************************)
(* The linked_accounts table and crud/linked_accounts.py.  A row is        *)
(* [id, project_id, app_id, linked_account_owner_id, security_scheme,      *)
(* security_credentials, enabled].                                         *)
(***************************************************************************)
MaxCreates == 3

Projects == {"project_1"}
AppNames == {"APP_1", "APP_2"}
OwnerIds == {"owner_1", "owner_2"}

LinkedAccountRow(id, project_id, app_id, owner_id, scheme, creds, enabled) ==
    [id |-> id, project_id |-> project_id, app_id |-> app_id,
     linked_account_owner_id |-> owner_id, security_scheme |-> scheme,
     security_credentials |-> creds, enabled |-> enabled]

Key(row) == <<row.project_id, row.app_id, row.linked_account_owner_id>>

\* the table's unique constraint on (project_id, app_id, linked_account_owner_id)
ViolatesUniqueKey(table, row) == \E r \in table : Key(r) = Key(row)

\* select ... filter_by(project_id, name, linked_account_owner_id), scalar_one_or_none()
get_linked_account(table, project_id, app_name, owner_id) ==
    LET rows == {r \in table : Key(r) = <<project_id, app_name, owner_id>>}
    IN  IF rows = {} THEN [exc |-> "", found |-> FALSE]
        ELSE IF Cardinality(rows) = 1
        THEN [exc |-> "", found |-> TRUE, row |-> CHOOSE r \in rows : TRUE]
        ELSE [exc |-> "MultipleResultsFound", found |-> FALSE]

\* select ... filter_by(id, project_id), scalar_one_or_none()
get_linked_account_by_id(table, id, project_id) ==
    LET rows == {r \in table : r.id = id /\ r.project_id = project_id}
    IN  IF rows = {} THEN [exc |-> "", found |-> FALSE]
        ELSE IF Cardinality(rows) = 1
        THEN [exc |-> "", found |-> TRUE, row |-> CHOOSE r \in rows : TRUE]
        ELSE [exc |-> "MultipleResultsFound", found |-> FALSE]

\* the row is added whether or not its key is already taken
create_linked_account_unconstrained(table, id, project_id, app_name, owner_id, scheme, creds, enabled) ==
    LET row == LinkedAccountRow(id, project_id, app_name, owner_id, scheme, creds, enabled)
    IN  [exc |-> "", table |-> table \cup {row}]

\* create_linked_account: add, flush (the constraint is checked), refresh
create_linked_account(table, id, project_id, app_name, owner_id, scheme, creds, enabled) ==
    LET row == LinkedAccountRow(id, project_id, app_name, owner_id, scheme, creds, enabled)
    IN  IF ViolatesUniqueKey(table, row)
        THEN [exc |-> "IntegrityError", table |-> table]
        ELSE [exc |-> "", table |-> table \cup {row}]

\* update_linked_account: each argument is assigned only if truthy
NoScheme == "None"
update_linked_account(row, scheme, creds) ==
    [row EXCEPT !.security_scheme = IF scheme # NoScheme THEN scheme ELSE @,
                !.security_credentials = IF Truthy(creds) THEN creds ELSE @]

\* deletion that only marks the row as disabled
delete_linked_account_disabling(table, row) ==
    (table \ {row}) \cup {[row EXCEPT !.enabled = FALSE]}

\* delete_linked_account: db_session.delete(linked_account), flush
delete_linked_account(table, row) == table \ {row}

\* delete_linked_accounts: delete every row of the project and app; the
\* table left and the rowcount
delete_linked_accounts(table, project_id, app_name) ==
    LET gone == {r \in table : r.project_id = project_id /\ r.app_id = app_name}
    IN  [table |-> table \ gone, rowcount |-> Cardinality(gone)]

\* what callers pass to create and update
CreatePayloads ==
    {[scheme |-> API_KEY, creds |-> UserKey], [scheme |-> OAUTH2, creds |-> UserToken]}
UpdateSchemes == {NoScheme, API_KEY}
UpdateCredentials == {NoCredentials, EmptyCredentials, UserKey}

CreateLinkedAccount ==
    /\ next_id <= MaxCreates
    /\ \E project_id \in Projects, app_name \in AppNames, owner_id \in OwnerIds,
          payload \in CreatePayloads :
          LET r == create_linked_account(linked_accounts, next_id, project_id, app_name,
                                         owner_id, payload.scheme, payload.creds, TRUE)
          IN  /\ linked_accounts' = r.table
              /\ next_id' = IF r.exc = "" THEN next_id + 1 ELSE next_id
              /\ last_op' = [op |-> "create", exc |-> r.exc, id |-> next_id,
                             key |-> <<project_id, app_name, owner_id>>]
    /\ UNCHANGED <<executionVars, tokenVars, extraVars>>

UpdateLinkedAccount ==
    /\ \E row \in linked_accounts, scheme \in UpdateSchemes, creds \in UpdateCredentials :
          /\ linked_accounts' =
                (linked_accounts \ {row}) \cup {update_linked_account(row, scheme, creds)}
          /\ last_op' = [op |-> "update", exc |-> "", id |-> row.id, key |-> Key(row)]
    /\ UNCHANGED <<next_id, executionVars, tokenVars, extraVars>>

DeleteLinkedAccount ==
    /\ \E row \in linked_accounts :
          /\ linked_accounts' = delete_linked_account(linked_accounts, row)
          /\ last_op' = [op |-> "delete", exc |-> "", id |-> row.id, key |-> Key(row)]
    /\ UNCHANGED <<next_id, executionVars, tokenVars, extraVars>>

DeleteLinkedAccounts ==
    /\ \E project_id \in Projects, app_name \in AppNames :
          LET r == delete_linked_accounts(linked_accounts, project_id, app_name)
          IN  /\ linked_accounts' = r.table
              /\ last_op' = [op |-> "delete_all", exc |-> "", rowcount |-> r.rowcount,
                             project_id |-> project_id, app_id |-> app_name]
    /\ UNCHANGED <<next_id, executionVars, tokenVars, extraVars>>

NextAccounts ==
    \/ CreateLinkedAccount
    \/ UpdateLinkedAccount
    \/ DeleteLinkedAccount
    \/ DeleteLinkedAccounts

SpecAccounts == Init /\ [][NextAccounts]_vars

(***************************************************************************)
(* OAuth2 token refresh for one linked account: the expiry check, the      *)
(* refresh round trip of OAuth2Manager.refresh_token, the parsing of the   *)
(* token response and the write of the new credentials with                *)
(* update_linked_account.  Each of the concurrent calls reads the stored   *)
(* credentials, refreshes them if they are expired and stores the result.  *)
(***************************************************************************)
MaxTime == 3
MaxRefreshes == 2

\* OAuth2SchemeCredentials {access_token, refresh_token, expires_at}; tokens
\* are numbered in the order the provider issued them
OAuth2Token(access_token, refresh_token, expires_at) ==
    [shape |-> "oauth2", access_token |-> access_token,
     refresh_token |-> refresh_token, expires_at |-> expires_at]

\* token_response["expires_in"]
ExpiresIn == 2

\* the linked account whose token is refreshed, as first linked
InitialToken == OAuth2Token(0, 0, 1)
TokenAccount ==
    LinkedAccountRow(1, "project_1", "APP_1", "owner_1", OAUTH2, InitialToken, TRUE)

\* what the provider's token endpoint can answer to a refresh: an error, a
\* response without access_token, a response with the n-th token
ProviderFailure == [kind |-> "error"]

\* a token dict: access_token and expires_in may be missing; authed_user is
\* the nested token dict Slack answers with, NoAuthedUser when there is none
NoAuthedUser == [kind |-> "none"]
TokenDict(has_access_token, n, has_expires_in, expires_in, authed_user) ==
    [kind |-> "token", has_access_token |-> has_access_token,
     access_token |-> n, refresh_token |-> n,
     has_expires_in |-> has_expires_in, expires_in |-> expires_in,
     authed_user |-> authed_user]

TokenResponse(has_access_token, n) ==
    TokenDict(has_access_token, n, TRUE, ExpiresIn, NoAuthedUser)

\* OAuth2Manager.refresh_token: the client's refresh_token raises or its
\* token is returned
refresh_token(answer) ==
    IF answer.kind = "error"
    THEN [exc |-> "OAuthError"]
    ELSE [exc |-> "", token |-> answer]

\* expires_at=None: the unset Optional[int], written as the one integer no
\* sum of a time and a lifetime can be
NoExpiry == -1

\* Python truthiness of authed_user.get("expires_in")
TruthyExpiresIn(token) == token.has_expires_in /\ token.expires_in # 0

\* OAuth2Manager.parse_oauth2_security_credentials
parse_oauth2_security_credentials(app_name, token_response, time) ==
    IF app_name = "SLACK"
    THEN LET authed_user == token_response.authed_user
         IN  IF authed_user = NoAuthedUser \/ ~authed_user.has_access_token
             THEN [exc |-> "LinkedAccountOAuth2Error"]
             ELSE [exc |-> "",
                   credentials |->
                       OAuth2Token(authed_user.access_token, authed_user.refresh_token,
                                   IF TruthyExpiresIn(authed_user)
                                   THEN time + authed_user.expires_in
                                   ELSE NoExpiry)]
    ELSE IF ~token_response.has_access_token
    THEN [exc |-> "LinkedAccountOAuth2Error"]
    ELSE [exc |-> "",
          credentials |-> OAuth2Token(token_response.access_token,
                                      token_response.refresh_token,
                                      IF token_response.has_expires_in
                                      THEN time + token_response.expires_in
                                      ELSE NoExpiry)]

\* the stored row of the linked account and its credentials
StoredAccount == CHOOSE r \in linked_accounts : r.id = TokenAccount.id
StoredCredentials == StoredAccount.security_credentials

InitTokens ==
    /\ pc = "idle"
    /\ call = NoCall
    /\ function_input = EmptyMap
    /\ built = NotBuilt
    /\ response = NoResponse
    /\ outcome = NoOutcome
    /\ steps = <<>>
    /\ sent = 0
    /\ send_error = ""
    /\ resolution = NoResolution
    /\ linked_accounts = {TokenAccount}
    /\ next_id = 2
    /\ last_op = NoOp
    /\ time_now = 0
    /\ refresher = [c \in Callers |-> IdleRefresher]
    /\ issued = 0
    /\ ExtraIdle

\* time passes
Tick ==
    /\ time_now < MaxTime
    /\ time_now' = time_now + 1
    /\ UNCHANGED <<refresher, issued, executionVars, storeVars, extraVars>>

\* a call reads the stored credentials and checks whether they are expired
Observe(c) ==
    /\ refresher[c].pc = "idle"
    /\ refresher' = [refresher EXCEPT ![c] =
          [pc |-> IF access_token_is_expired(StoredCredentials, time_now)
                  THEN "expired" ELSE "valid",
           seen |-> StoredCredentials, at |-> time_now]]
    /\ UNCHANGED <<time_now, issued, executionVars, storeVars, extraVars>>

\* the call asks the provider for a new token
StartRefresh(c) ==
    /\ refresher[c].pc = "expired"
    /\ refresher' = [refresher EXCEPT ![c].pc = "refreshing"]
    /\ UNCHANGED <<time_now, issued, executionVars, storeVars, extraVars>>

\* a failed refresh also wipes the stored credentials
RefreshFails_invalidating(c) ==
    /\ refresher[c].pc = "refreshing"
    /\ \E answer \in {ProviderFailure, TokenResponse(FALSE, issued)} :
          LET r == refresh_token(answer)
              error == IF r.exc # "" THEN r.exc
                       ELSE parse_oauth2_security_credentials(TokenAccount.app_id, r.token, time_now).exc
          IN  refresher' = [refresher EXCEPT ![c] =
                  [pc |-> "refresh_failed", seen |-> @.seen, at |-> @.at, error |-> error]]
    /\ linked_accounts' = (linked_accounts \ {StoredAccount}) \cup
          {[StoredAccount EXCEPT !.security_credentials = EmptyCredentials]}
    /\ UNCHANGED <<time_now, issued, next_id, last_op, executionVars, extraVars>>

\* the refresh raises: the provider answered with an error, or its token
\* response has no access_token
RefreshFails(c) ==
    /\ refresher[c].pc = "refreshing"
    /\ \E answer \in {ProviderFailure, TokenResponse(FALSE, issued)} :
          LET r == refresh_token(answer)
              error == IF r.exc # "" THEN r.exc
                       ELSE parse_oauth2_security_credentials(TokenAccount.app_id, r.token, time_now).exc
          IN  refresher' = [refresher EXCEPT ![c] =
                  [pc |-> "refresh_failed", seen |-> @.seen, at |-> @.at, error |-> error]]
    /\ UNCHANGED <<time_now, issued, executionVars, storeVars, extraVars>>

\* the refresh returns a token, from which the new credentials are parsed
RefreshSucceeds(c) ==
    /\ refresher[c].pc = "refreshing"
    /\ issued < MaxRefreshes
    /\ LET r == refresh_token(TokenResponse(TRUE, issued + 1))
           parsed == parse_oauth2_security_credentials(TokenAccount.app_id, r.token, time_now)
       IN  refresher' = [refresher EXCEPT ![c] =
               [pc |-> "persist", seen |-> @.seen, at |-> @.at,
                fresh |-> parsed.credentials]]
    /\ issued' = issued + 1
    /\ UNCHANGED <<time_now, executionVars, storeVars, extraVars>>

\* the new credentials are written to the linked account
Persist(c) ==
    /\ refresher[c].pc = "persist"
    /\ linked_accounts' = (linked_accounts \ {StoredAccount}) \cup
          {update_linked_account(StoredAccount, NoScheme, refresher[c].fresh)}
    /\ refresher' = [refresher EXCEPT ![c] =
          [pc |-> "valid", seen |-> @.fresh, at |-> @.at, refreshed |-> TRUE]]
    /\ UNCHANGED <<time_now, issued, next_id, last_op, executionVars, extraVars>>

\* the call ends, with the token or with the refresh error
Finish(c) ==
    /\ refresher[c].pc \in {"valid", "refresh_failed"}
    /\ refresher' = [refresher EXCEPT ![c] = IdleRefresher]
    /\ UNCHANGED <<time_now, issued, executionVars, storeVars, extraVars>>

NextTokens ==
    \/ Tick
    \/ \E c \in Callers : Observe(c)
    \/ \E c \in Callers : StartRefresh(c)
    \/ \E c \in Callers : RefreshFails(c)
    \/ \E c \in Callers : RefreshSucceeds(c)
    \/ \E c \in Callers : Persist(c)
    \/ \E c \in Callers : Finish(c)

SpecTokens == InitTokens /\ [][NextTokens]_vars

(***************************************************************************)
(* The URL construction of RestFunctionExecutor._execute on its own: the   *)
(* loop over path.items() one iteration at a time, for path templates with *)
(* one placeholder, two placeholders and a repeated placeholder, and path  *)
(* parameters in every iteration order.                                    *)
(***************************************************************************)
MaxPathParams == 2

BaseUrl == "https://api.mock.aipolabs.com/v1"

UrlTemplates ==
    {<<Lit(BaseUrl), Lit("greet"), Placeholder("userId")>>,
     <<Lit(BaseUrl), Placeholder("org"), Placeholder("userId")>>,
     <<Lit(BaseUrl), Placeholder("userId"), Lit("friends"), Placeholder("userId")>>}

\* path parameter values: plain text, text with URL delimiters, text that
\* reads like a placeholder
PathValues == {Str("John"), Str("a/b?c"), Str(Braced("userId")), Str(Braced("org"))}

\* the dicts a call can pass as path, as their items in iteration order
PathInputs ==
    {items \in UNION {[1..n -> [name : PathParamNames, value : PathValues]] :
                          n \in 0..MaxPathParams} :
        \A i, j \in DOMAIN items : i # j => items[i].name # items[j].name}

InitTemplating ==
    /\ CoreIdle
    /\ time_now = 0
    /\ ParsingIdle
    /\ QuotaIdle
    /\ ProjectsIdle
    /\ url_template \in UrlTemplates
    /\ path_input \in PathInputs
    /\ path_items = path_input
    /\ request_url = url_template
    /\ templating_pc = "loop"

\* one iteration: url = url.replace(f"{{{path_param_name}}}", str(path_param_value))
ReplaceNext ==
    /\ templating_pc = "loop"
    /\ path_items # <<>>
    /\ request_url' = Replace(request_url, path_items[1].name,
                              TextPieces(PathValueText(path_items[1].value)))
    /\ path_items' = Tail(path_items)
    /\ UNCHANGED <<url_template, path_input, templating_pc>>
    /\ UNCHANGED <<executionVars, storeVars, tokenVars, parsingVars, quotaVars, projectVars>>

\* the loop is over (or path was empty): the url goes into httpx.Request
UrlBuilt ==
    /\ templating_pc = "loop"
    /\ path_items = <<>>
    /\ templating_pc' = "done"
    /\ UNCHANGED <<url_template, path_input, path_items, request_url>>
    /\ UNCHANGED <<executionVars, storeVars, tokenVars, parsingVars, quotaVars, projectVars>>

NextTemplating == ReplaceNext \/ UrlBuilt

SpecTemplating == InitTemplating /\ [][NextTemplating]_vars

(***************************************************************************)
(* OAuth2Manager.parse_oauth2_security_credentials on its own: one call    *)
(* for every app, token response and clock reading within the bounds.      *)
(***************************************************************************)
MaxExpiresIn == 2

ProviderNames == {"SLACK", "GOOGLE"}

\* a token dict with or without access_token, with or without expires_in
PlainTokenDicts ==
    {TokenDict(has, 1, FALSE, 0, NoAuthedUser) : has \in BOOLEAN}
    \cup {TokenDict(has, 1, TRUE, n, NoAuthedUser) :
              has \in BOOLEAN, n \in 0..MaxExpiresIn}

\* token responses: a plain token dict, with or without an authed_user dict
TokenResponses ==
    {[t EXCEPT !.authed_user = u] :
        t \in PlainTokenDicts, u \in PlainTokenDicts \cup {NoAuthedUser}}

InitParsing ==
    /\ CoreIdle
    /\ time_now = 0
    /\ TemplatingIdle
    /\ QuotaIdle
    /\ ProjectsIdle
    /\ parsing_app \in ProviderNames
    /\ parsing_response \in TokenResponses
    /\ parsed_at \in 0..MaxTime
    /\ parsing_result = NotParsed

ParseTokenResponse ==
    /\ parsing_result = NotParsed
    /\ parsing_result' = parse_oauth2_security_credentials(parsing_app, parsing_response, parsed_at)
    /\ UNCHANGED <<parsing_app, parsing_response, parsed_at>>
    /\ UNCHANGED <<executionVars, storeVars, tokenVars, templatingVars, quotaVars, projectVars>>

NextParsing == ParseTokenResponse

SpecParsing == InitParsing /\ [][NextParsing]_vars

(***************************************************************************)
(* billing.increase_quota_usage: the monthly API quota of one organization *)
(* with two projects.  The quota store is the pair of per-project columns  *)
(* [used, last_reset].                                                     *)
(***************************************************************************)
\* subscription.plan.features["api_calls_monthly"]
ApiCallsMonthly == 2
\* how many billing periods begin
MaxPeriods == 2

QuotaStore(used, last_reset) == [used |-> used, last_reset |-> last_reset]

RECURSIVE SumOver(_, _)
SumOver(f, D) ==
    IF D = {} THEN 0
    ELSE LET x == CHOOSE y \in D : TRUE IN f[x] + SumOver(f, D \ {x})

\* crud.projects.get_total_monthly_quota_usage_for_org
get_total_monthly_quota_usage_for_org(store) == SumOver(store.used, DOMAIN store.used)

\* crud.projects.reset_api_monthly_quota_for_org
reset_api_monthly_quota_for_org(store, reset_time) ==
    QuotaStore([p \in DOMAIN store.used |-> 0],
               [p \in DOMAIN store.last_reset |-> reset_time])

\* crud.projects.increment_api_monthly_quota_usage
increment_api_monthly_quota_usage(store, project) ==
    [store EXCEPT !.used[project] = @ + 1]

\* the reset also happens when the period start equals the last reset
handle_quota_reset_from_period_start(store, project, period_start) ==
    IF period_start >= store.last_reset[project]
    THEN reset_api_monthly_quota_for_org(store, period_start)
    ELSE store

\* billing._handle_quota_reset (with _reset_monthly_quota)
handle_quota_reset(store, project, period_start) ==
    IF period_start > store.last_reset[project]
    THEN reset_api_monthly_quota_for_org(store, period_start)
    ELSE store

\* usage equal to the limit is still admitted
check_monthly_quota_limit_inclusive(store, monthly_quota_limit) ==
    IF get_total_monthly_quota_usage_for_org(store) > monthly_quota_limit
    THEN "MonthlyQuotaExceeded" ELSE ""

\* billing._check_monthly_quota_limit: the exception raised, "" if none
check_monthly_quota_limit(store, monthly_quota_limit) ==
    IF get_total_monthly_quota_usage_for_org(store) >= monthly_quota_limit
    THEN "MonthlyQuotaExceeded" ELSE ""

\* billing.increase_quota_usage
increase_quota_usage(store, project, period_start, monthly_quota_limit) ==
    LET after_reset == handle_quota_reset(store, project, period_start)
        exc == check_monthly_quota_limit(after_reset, monthly_quota_limit)
    IN  IF exc # ""
        THEN [exc |-> exc, store |-> after_reset]
        ELSE [exc |-> "",
              store |-> increment_api_monthly_quota_usage(after_reset, project)]

\* the HTTP status a quota-counted request ends with
HTTP_200_OK == 200
HTTP_402_PAYMENT_REQUIRED == 402
QuotaStatus(exc) == IF exc = "" THEN HTTP_200_OK ELSE HTTP_402_PAYMENT_REQUIRED

CurrentStore == QuotaStore(api_quota_monthly_used, api_quota_last_reset)

\* the second project was created after the first: its last reset may be later
InitQuota ==
    /\ CoreIdle
    /\ time_now = 0
    /\ TemplatingIdle
    /\ ParsingIdle
    /\ ProjectsIdle
    /\ api_quota_monthly_used = [p \in QuotaProjects |-> 0]
    /\ api_quota_last_reset \in
          {[p \in QuotaProjects |-> IF p = "project_2" THEN t ELSE 0] : t \in 0..1}
    /\ current_period_start = 0
    /\ quota_requests = [r \in QuotaRequests |-> NoRequestYet]

\* a quota-counted request of a project arrives
ReceiveRequest(r, project) ==
    /\ quota_requests[r].pc \in {"none", "done"}
    /\ quota_requests' = [quota_requests EXCEPT ![r] = [pc |-> "received", project |-> project]]
    /\ UNCHANGED <<api_quota_monthly_used, api_quota_last_reset, current_period_start>>
    /\ UNCHANGED <<executionVars, storeVars, tokenVars, templatingVars, parsingVars, projectVars>>

\* the subscription enters its next billing period
NewBillingPeriod ==
    /\ current_period_start < MaxPeriods
    /\ current_period_start' = current_period_start + 1
    /\ UNCHANGED <<api_quota_monthly_used, api_quota_last_reset, quota_requests>>
    /\ UNCHANGED <<executionVars, storeVars, tokenVars, templatingVars, parsingVars, projectVars>>

\* increase_quota_usage from its first to its last line, for a request
\* handled while no other request is in progress
IncreaseQuotaUsage(r) ==
    /\ quota_requests[r].pc = "received"
    /\ \A o \in QuotaRequests \ {r} : quota_requests[o].pc \in {"none", "done"}
    /\ LET res == increase_quota_usage(CurrentStore, quota_requests[r].project,
                                       current_period_start, ApiCallsMonthly)
       IN  /\ api_quota_monthly_used' = res.store.used
           /\ api_quota_last_reset' = res.store.last_reset
           /\ quota_requests' = [quota_requests EXCEPT ![r] =
                  [pc |-> "done", project |-> @.project, exc |-> res.exc,
                   status |-> QuotaStatus(res.exc),
                   reset |-> res.store.last_reset # api_quota_last_reset]]
    /\ UNCHANGED current_period_start
    /\ UNCHANGED <<executionVars, storeVars, tokenVars, templatingVars, parsingVars, projectVars>>

\* requests are handled one at a time
NextQuota ==
    \/ \E r \in QuotaRequests, p \in QuotaProjects :
          /\ \A o \in QuotaRequests : quota_requests[o].pc \in {"none", "done"}
          /\ ReceiveRequest(r, p)
    \/ \E r \in QuotaRequests : IncreaseQuotaUsage(r)
    \/ NewBillingPeriod

SpecQuota == InitQuota /\ [][NextQuota]_vars

(***************************************************************************)
(* The same handler with requests in progress at the same time: each call  *)
(* of increase_quota_usage is a sequence of statements against the shared  *)
(* projects table (reset, read of the total, increment), and statements of *)
(* different requests interleave.  Each statement takes effect at once.    *)
(***************************************************************************)
\* _handle_quota_reset(db_session, project, subscription.current_period_start)
HandleQuotaReset(r) ==
    /\ quota_requests[r].pc = "received"
    /\ LET after == handle_quota_reset(CurrentStore, quota_requests[r].project,
                                       current_period_start)
       IN  /\ api_quota_monthly_used' = after.used
           /\ api_quota_last_reset' = after.last_reset
           /\ quota_requests' = [quota_requests EXCEPT ![r] =
                  [pc |-> "reset_handled", project |-> @.project,
                   reset |-> after.last_reset # api_quota_last_reset]]
    /\ UNCHANGED current_period_start
    /\ UNCHANGED <<executionVars, storeVars, tokenVars, templatingVars, parsingVars, projectVars>>

\* _check_monthly_quota_limit(db_session, project, monthly_quota_limit)
CheckMonthlyQuotaLimit(r) ==
    /\ quota_requests[r].pc = "reset_handled"
    /\ LET exc == check_monthly_quota_limit(CurrentStore, ApiCallsMonthly)
       IN  quota_requests' = [quota_requests EXCEPT ![r] =
              IF exc # ""
              THEN [pc |-> "done", project |-> @.project, exc |-> exc,
                    status |-> QuotaStatus(exc), reset |-> @.reset]
              ELSE [pc |-> "checked", project |-> @.project, reset |-> @.reset]]
    /\ UNCHANGED <<api_quota_monthly_used, api_quota_last_reset, current_period_start>>
    /\ UNCHANGED <<executionVars, storeVars, tokenVars, templatingVars, parsingVars, projectVars>>

\* crud.projects.increment_api_monthly_quota_usage(db_session, project)
IncrementUsage(r) ==
    /\ quota_requests[r].pc = "checked"
    /\ api_quota_monthly_used' =
          increment_api_monthly_quota_usage(CurrentStore, quota_requests[r].project).used
    /\ quota_requests' = [quota_requests EXCEPT ![r] =
          [pc |-> "done", project |-> @.project, exc |-> "",
           status |-> QuotaStatus(""), reset |-> @.reset]]
    /\ UNCHANGED <<api_quota_last_reset, current_period_start>>
    /\ UNCHANGED <<executionVars, storeVars, tokenVars, templatingVars, parsingVars, projectVars>>

NextQuotaConcurrent ==
    \/ \E r \in QuotaRequests, p \in QuotaProjects : ReceiveRequest(r, p)
    \/ \E r \in QuotaRequests : HandleQuotaReset(r)
    \/ \E r \in QuotaRequests : CheckMonthlyQuotaLimit(r)
    \/ \E r \in QuotaRequests : IncrementUsage(r)
    \/ NewBillingPeriod

SpecQuotaConcurrent == InitQuota /\ [][NextQuotaConcurrent]_vars

(***************************************************************************)
(* routes/projects.py: creating and deleting the projects of organizations.*)
(* A project row is [id, org_id]; an agent row is [project_id].            *)
(***************************************************************************)
\* subscription.plan.features["projects"]
MaxProjects == 2
\* how many projects are ever created
MaxProjectIds == 4

OrgIds == {"org_1", "org_2"}

ProjectRow(id, org_id) == [id |-> id, org_id |-> org_id]
AgentRow(project_id) == [project_id |-> project_id]

\* crud.projects.get_project: the rows with that id (none or one)
get_project(rows, project_id) == {row \in rows : row.id = project_id}

\* crud.projects.get_projects_by_org
get_projects_by_org(rows, org_id) == {row \in rows : row.org_id = org_id}

\* crud.projects.create_project
crud_create_project(rows, id, org_id) == rows \cup {ProjectRow(id, org_id)}

\* crud.agents.create_agent
crud_create_agent(agent_rows, project_id) == agent_rows \cup {AgentRow(project_id)}

\* crud.projects.delete_project: no row, nothing happens
crud_delete_project(rows, project_id) == rows \ get_project(rows, project_id)

\* the agents of a deleted project go with it (cascade)
cascade_agents(agent_rows, project_id) ==
    {a \in agent_rows : a.project_id # project_id}

\* quota_manager.enforce_project_creation_quota: the exception, "" if none
enforce_project_creation_quota(rows, org_id) ==
    IF Cardinality(get_projects_by_org(rows, org_id)) >= MaxProjects
    THEN "MaxProjectsReached" ELSE ""

\* routes/projects.py create_project: quota, project, default agent, commit
create_project(rows, agent_rows, id, org_id) ==
    LET exc == enforce_project_creation_quota(rows, org_id)
    IN  IF exc # ""
        THEN [exc |-> exc, projects |-> rows, agents |-> agent_rows]
        ELSE [exc |-> "",
              projects |-> crud_create_project(rows, id, org_id),
              agents |-> crud_create_agent(agent_rows, id)]

\* the last project of an organization may be deleted too
last_project_check_off_by_one(org_projects) ==
    IF Cardinality(org_projects) < 1 THEN "ProjectIsLastInOrgError" ELSE ""

\* if len(org_projects) <= 1: raise ProjectIsLastInOrgError()
last_project_check(org_projects) ==
    IF Cardinality(org_projects) <= 1 THEN "ProjectIsLastInOrgError" ELSE ""

\* routes/projects.py delete_project
delete_project(rows, agent_rows, project_id) ==
    LET found == get_project(rows, project_id)
    IN  IF found = {}
        THEN [exc |-> "ProjectNotFound", projects |-> rows, agents |-> agent_rows]
        ELSE LET project == CHOOSE row \in found : TRUE
                 exc == last_project_check(get_projects_by_org(rows, project.org_id))
             IN  IF exc # ""
                 THEN [exc |-> exc, projects |-> rows, agents |-> agent_rows]
                 ELSE [exc |-> "",
                       projects |-> crud_delete_project(rows, project_id),
                       agents |-> cascade_agents(agent_rows, project_id)]

HTTP_204_NO_CONTENT == 204
HTTP_404_NOT_FOUND == 404
HTTP_409_CONFLICT == 409
ProjectStatus(exc) ==
    CASE exc = "" -> HTTP_204_NO_CONTENT
      [] exc = "ProjectNotFound" -> HTTP_404_NOT_FOUND
      [] exc = "ProjectIsLastInOrgError" -> HTTP_409_CONFLICT
      [] OTHER -> 0

InitProjects ==
    /\ CoreIdle
    /\ time_now = 0
    /\ TemplatingIdle
    /\ ParsingIdle
    /\ QuotaIdle
    /\ ProjectsIdle

\* POST /projects handled from its first to its last line
CreateProject(r, org_id) ==
    /\ project_requests[r].pc \in {"none", "done"}
    /\ next_project_id <= MaxProjectIds
    /\ LET res == create_project(projects, agents, next_project_id, org_id)
       IN  /\ projects' = res.projects
           /\ agents' = res.agents
           /\ next_project_id' = IF res.exc = "" THEN next_project_id + 1
                                  ELSE next_project_id
           /\ project_requests' = [project_requests EXCEPT ![r] =
                  [pc |-> "done", op |-> "create", org_id |-> org_id, exc |-> res.exc]]
    /\ UNCHANGED <<executionVars, storeVars, tokenVars, templatingVars, parsingVars,
                   quotaVars>>

\* DELETE /projects/{project_id} handled from its first to its last line
DeleteProject(r, project_id) ==
    /\ project_requests[r].pc \in {"none", "done"}
    /\ LET res == delete_project(projects, agents, project_id)
       IN  /\ projects' = res.projects
           /\ agents' = res.agents
           /\ project_requests' = [project_requests EXCEPT ![r] =
                  [pc |-> "done", op |-> "delete", project_id |-> project_id,
                   exc |-> res.exc, status |-> ProjectStatus(res.exc)]]
    /\ UNCHANGED next_project_id
    /\ UNCHANGED <<executionVars, storeVars, tokenVars, templatingVars, parsingVars,
                   quotaVars>>

\* requests are handled one at a time
NextProjects ==
    \/ \E r \in ProjectRequests, org \in OrgIds : CreateProject(r, org)
    \/ \E r \in ProjectRequests, id \in 1..MaxProjectIds : DeleteProject(r, id)

SpecProjects == InitProjects /\ [][NextProjects]_vars

(***************************************************************************)
(* Delete requests in progress at the same time: the handler first reads   *)
(* (the project, the projects of its organization), then deletes and       *)
(* commits; the reads and the commit of different requests interleave.     *)
(***************************************************************************)
\* a DELETE /projects/{project_id} request arrives
BeginDelete(r, project_id) ==
    /\ project_requests[r].pc \in {"none", "done"}
    /\ project_requests' = [project_requests EXCEPT ![r] =
          [pc |-> "received", op |-> "delete", project_id |-> project_id]]
    /\ UNCHANGED <<projects, agents, next_project_id>>
    /\ UNCHANGED <<executionVars, storeVars, tokenVars, templatingVars, parsingVars,
                   quotaVars>>

\* get_project, get_projects_by_org and the two checks on what they returned
DeleteChecks(r) ==
    /\ project_requests[r].pc = "received"
    /\ LET id == project_requests[r].project_id
           found == get_project(projects, id)
           exc == IF found = {} THEN "ProjectNotFound"
                  ELSE last_project_check(
                           get_projects_by_org(projects,
                                               (CHOOSE row \in found : TRUE).org_id))
       IN  project_requests' = [project_requests EXCEPT ![r] =
              IF exc # ""
              THEN [pc |-> "done", op |-> "delete", project_id |-> id,
                    exc |-> exc, status |-> ProjectStatus(exc)]
              ELSE [pc |-> "checked", op |-> "delete", project_id |-> id]]
    /\ UNCHANGED <<projects, agents, next_project_id>>
    /\ UNCHANGED <<executionVars, storeVars, tokenVars, templatingVars, parsingVars,
                   quotaVars>>

\* crud.projects.delete_project(db_session, project_id); db_session.commit()
DeleteCommit(r) ==
    /\ project_requests[r].pc = "checked"
    /\ LET id == project_requests[r].project_id
       IN  /\ projects' = crud_delete_project(projects, id)
           /\ agents' = cascade_agents(agents, id)
           /\ project_requests' = [project_requests EXCEPT ![r] =
                  [pc |-> "done", op |-> "delete", project_id |-> id,
                   exc |-> "", status |-> ProjectStatus("")]]
    /\ UNCHANGED next_project_id
    /\ UNCHANGED <<executionVars, storeVars, tokenVars, templatingVars, parsingVars,
                   quotaVars>>

NextProjectsConcurrent ==
    \/ \E r \in ProjectRequests, org \in OrgIds : CreateProject(r, org)
    \/ \E r \in ProjectRequests, id \in 1..MaxProjectIds : BeginDelete(r, id)
    \/ \E r \in ProjectRequests : DeleteChecks(r)
    \/ \E r \in ProjectRequests : DeleteCommit(r)

SpecProjectsConcurrent == InitProjects /\ [][NextProjectsConcurrent]_vars

(***************************************************************************)
(* routes/webhooks.py handle_user_signup_webhook: the personal             *)
(* organization of a new user gets a default project and a default agent.  *)
(* Each webhook call has its own database session; what it added reaches   *)
(* the tables at its commits, and a call that raises leaves behind what it *)
(* committed before.                                                       *)
(***************************************************************************)
\* the personal organization auth.create_org makes for the call in a slot
PersonalOrg(r) == IF r = "request_1" THEN "org_1" ELSE "org_2"

\* the early returns: bad signature, unknown user, user already has a
\* personal organization
HTTP_400_BAD_REQUEST == 400
SignupRefusals == {HTTP_400_BAD_REQUEST, HTTP_404_NOT_FOUND, HTTP_409_CONFLICT}

SignupRefused(r) ==
    /\ project_requests[r].pc = "none"
    /\ \E st \in SignupRefusals :
          project_requests' = [project_requests EXCEPT ![r] =
              [pc |-> "done", op |-> "signup", status |-> st, project_id |-> 0]]
    /\ UNCHANGED <<projects, agents, next_project_id>>
    /\ UNCHANGED <<executionVars, storeVars, tokenVars, templatingVars, parsingVars,
                   quotaVars>>

\* auth.create_org, update_org_metadata, add_user_to_org
SignupCreateOrg(r) ==
    /\ project_requests[r].pc = "none"
    /\ project_requests' = [project_requests EXCEPT ![r] =
          [pc |-> "org_created", op |-> "signup", org_id |-> PersonalOrg(r),
           project_id |-> 0, status |-> 0]]
    /\ UNCHANGED <<projects, agents, next_project_id>>
    /\ UNCHANGED <<executionVars, storeVars, tokenVars, templatingVars, parsingVars,
                   quotaVars>>

\* enforce_project_creation_quota; crud.projects.create_project (add, flush)
SignupCreateProject(r) ==
    /\ project_requests[r].pc = "org_created"
    /\ LET exc == enforce_project_creation_quota(projects, project_requests[r].org_id)
       IN  IF exc # ""
           THEN /\ project_requests' = [project_requests EXCEPT ![r] =
                       [@ EXCEPT !.pc = "failed"]]
                /\ UNCHANGED next_project_id
           ELSE /\ project_requests' = [project_requests EXCEPT ![r] =
                       [@ EXCEPT !.pc = "project_added", !.project_id = next_project_id]]
                /\ next_project_id' = next_project_id + 1
    /\ UNCHANGED <<projects, agents>>
    /\ UNCHANGED <<executionVars, storeVars, tokenVars, templatingVars, parsingVars,
                   quotaVars>>

\* db_session.commit() after create_project
SignupCommitProject(r) ==
    /\ project_requests[r].pc = "project_added"
    /\ projects' = crud_create_project(projects, project_requests[r].project_id,
                                       project_requests[r].org_id)
    /\ project_requests' = [project_requests EXCEPT ![r] =
          [@ EXCEPT !.pc = "project_committed"]]
    /\ UNCHANGED <<agents, next_project_id>>
    /\ UNCHANGED <<executionVars, storeVars, tokenVars, templatingVars, parsingVars,
                   quotaVars>>

\* crud.projects.create_agent (add, flush)
SignupCreateAgent(r) ==
    /\ project_requests[r].pc = "project_committed"
    /\ project_requests' = [project_requests EXCEPT ![r] = [@ EXCEPT !.pc = "agent_added"]]
    /\ UNCHANGED <<projects, agents, next_project_id>>
    /\ UNCHANGED <<executionVars, storeVars, tokenVars, templatingVars, parsingVars,
                   quotaVars>>

\* db_session.commit() after create_agent: the handler returns (204)
SignupCommitAgent(r) ==
    /\ project_requests[r].pc = "agent_added"
    /\ agents' = crud_create_agent(agents, project_requests[r].project_id)
    /\ project_requests' = [project_requests EXCEPT ![r] =
          [@ EXCEPT !.pc = "done", !.status = HTTP_204_NO_CONTENT]]
    /\ UNCHANGED <<projects, next_project_id>>
    /\ UNCHANGED <<executionVars, storeVars, tokenVars, templatingVars, parsingVars,
                   quotaVars>>

\* the statement the handler is about to run raises (the database or the
\* auth service fails): the session is closed, what was not committed is gone
SignupFails(r) ==
    /\ project_requests[r].pc \in
          {"org_created", "project_added", "project_committed", "agent_added"}
    /\ project_requests' = [project_requests EXCEPT ![r] = [@ EXCEPT !.pc = "failed"]]
    /\ UNCHANGED <<projects, agents, next_project_id>>
    /\ UNCHANGED <<executionVars, storeVars, tokenVars, templatingVars, parsingVars,
                   quotaVars>>

NextSignup ==
    \/ \E r \in ProjectRequests : SignupRefused(r)
    \/ \E r \in ProjectRequests : SignupCreateOrg(r)
    \/ \E r \in ProjectRequests : SignupCreateProject(r)
    \/ \E r \in ProjectRequests : SignupCommitProject(r)
    \/ \E r \in ProjectRequests : SignupCreateAgent(r)
    \/ \E r \in ProjectRequests : SignupCommitAgent(r)
    \/ \E r \in ProjectRequests : SignupFails(r)

SpecSignup == InitProjects /\ [][NextSignup]_vars

(***************************************************************************)
(* Properties.                                                             *)
(***************************************************************************)
\* the call went through execute (an executor was obtained) and has ended
ExecuteEnded == pc = "done" /\ call.executor # "none"

\* C1: every FunctionExecutionResult _execute returns has success with data
\* populated and error absent, or failure with error populated and data
\* absent; never both and never neither.
C1_ExactlyOneOfDataAndError ==
    outcome.kind = "result" =>
        \/ outcome.success /\ outcome.data # Null /\ outcome.error = Null
        \/ ~outcome.success /\ outcome.error # Null /\ outcome.data = Null

\* C2 as stated: every call of execute ends by returning a
\* FunctionExecutionResult, whatever fails on the way.
C2_ExecuteNeverRaises ==
    ExecuteEnded => outcome.kind = "result"

\* C2 amended: a call that reached client.send ends by returning a
\* FunctionExecutionResult (send failures and non-2xx responses included);
\* a call that raises has sent nothing, and what it raises is
\* InvalidFunctionInput, NoImplementationFound or a credentials validation
\* error.
C2_ReturnsOnceSent ==
    ExecuteEnded =>
        /\ sent > 0 => outcome.kind = "result"
        /\ sent = 0 => outcome.kind = "raised"
        /\ outcome.kind = "raised" =>
              outcome.exc \in {"InvalidFunctionInput", "NoImplementationFound",
                               "ValidationError"}

C2_Witness ==
    /\ ExecuteEnded
    /\ sent > 0
    /\ response # NoResponse
    /\ ~IsSuccess(response)
    /\ outcome.kind = "result"
    /\ ~outcome.success

\* C10: a failure raised by client.send makes execute return success=false
\* with error set to the failure's message; it is not raised to the caller.
C10_SendFailureIsReturned ==
    (pc = "done" /\ send_error # "") =>
        outcome = FunctionExecutionResult(FALSE, Null, ExceptionText(send_error))

C10_Witness ==
    /\ pc = "done"
    /\ send_error = "ReadTimeout"
    /\ outcome.kind = "result"
    /\ outcome.error = ExceptionText("ReadTimeout")

\* _execute got as far as the credential injection (whatever its result)
InjectionRan == built # NotBuilt
\* a request was built
RequestBuilt == built # NotBuilt /\ built.exc = ""

\* the credentials the claim expects for a linked account of an app: the
\* linked account's when non-empty, else the app's default for its scheme
DefaultFor(app, la) == app.default_security_credentials_by_scheme[la.security_scheme]
ExpectedCredentials(app, la) ==
    IF Truthy(la.security_credentials) THEN la.security_credentials
    ELSE DefaultFor(app, la)

PrefersLinkedAccount(la, from, creds) ==
    /\ Truthy(la.security_credentials) =>
          from = "linked_account" /\ creds = la.security_credentials
    /\ from = "app_default" => ~Truthy(la.security_credentials)

\* C3: for the API key and the OAuth2 scheme alike, non-empty linked-account
\* credentials are the ones resolved, and the app default is used only when
\* the linked account's credentials are empty.
C3_LinkedAccountCredentialsFirst ==
    /\ (InjectionRan /\ built.injection.from # "none") =>
          PrefersLinkedAccount(call.linked_account, built.injection.from,
                               built.injection.credentials)
    /\ (resolution # NoResolution /\ resolution.result.from # "none") =>
          PrefersLinkedAccount(resolution.linked_account, resolution.result.from,
                               resolution.result.credentials)

\* C4: with empty linked-account credentials and no app default for the
\* linked account's scheme, credential resolution fails with an error and
\* no request is sent.
C4_NoCredentialsNoRequest ==
    /\ (InjectionRan
        /\ ~Truthy(call.linked_account.security_credentials)
        /\ DefaultFor(call.app, call.linked_account) = NoCredentials) =>
          /\ built.exc # ""
          /\ pc = "done"
          /\ outcome.kind = "raised"
          /\ sent = 0
    /\ (resolution # NoResolution
        /\ ~Truthy(resolution.linked_account.security_credentials)
        /\ DefaultFor(resolution.app, resolution.linked_account) = NoCredentials) =>
          resolution.result.exc # ""

\* the validation errors of the caller's input against the visible parameters
InputErrors ==
    ValidationErrors(Obj(call.function_input),
                     filter_visible_properties(Parameters(call.function)), <<>>)

\* C5: an input that violates the visible-only schema makes execute fail with
\* InvalidFunctionInput carrying the validator's message, with no default
\* injected, no credential resolved or injected and no request sent.
C5_InvalidInputFailsFirst ==
    (call.executor # "none" /\ pc \notin {"idle", "preprocess"} /\ InputErrors # {}) =>
        /\ pc = "done"
        /\ outcome = Raised("InvalidFunctionInput", BestMatch(InputErrors))
        /\ steps = <<"validate">>
        /\ function_input = call.function_input
        /\ built = NotBuilt
        /\ sent = 0

C5_Witness ==
    /\ pc = "done"
    /\ call.executor # "none"
    /\ call.function = "HELLO_WORLD_PATH"
    /\ call.function_input = [x \in {"path"} |-> Obj(EmptyMap)]
    /\ outcome.kind = "raised"
    /\ outcome.exc = "InvalidFunctionInput"
    /\ outcome.msg = [validator |-> "required", path |-> <<"path">>, key |-> "userId"]

\* the value at a path of keys inside a JSON value, Absent if there is none
Absent == [k |-> "absent"]
RECURSIVE ValueAt(_, _)
ValueAt(v, path) ==
    IF path = <<>> THEN v
    ELSE IF IsObj(v) /\ Head(path) \in DOMAIN v.o
    THEN ValueAt(v.o[Head(path)], Tail(path))
    ELSE Absent

\* the required, invisible leaf properties that have a default, at any depth,
\* below properties that are themselves required: [path, default]
RECURSIVE RequiredInvisibleDefaults(_, _)
RequiredInvisibleDefaults(schema, path) ==
    UNION {LET sub == schema.properties[p]
           IN  IF sub.type = "object"
               THEN RequiredInvisibleDefaults(sub, Append(path, p))
               ELSE IF ~sub.visible /\ sub.hasDefault
               THEN {[path |-> Append(path, p), default |-> sub.default]}
               ELSE {} :
           p \in schema.required \cap DOMAIN schema.properties}

\* the paths of the visible leaf properties (below visible properties only)
RECURSIVE VisibleLeafPaths(_, _)
VisibleLeafPaths(schema, path) ==
    UNION {LET sub == schema.properties[p]
           IN  IF ~sub.visible THEN {}
               ELSE IF sub.type = "object" THEN VisibleLeafPaths(sub, Append(path, p))
               ELSE {Append(path, p)} :
           p \in DOMAIN schema.properties}

\* the input was valid and has been normalized
Normalized ==
    /\ call.executor # "none"
    /\ pc \notin {"idle", "preprocess"}
    /\ InputErrors = {}

\* the request's parts, keyed as the function input is
RequestParts ==
    LET r == built.request
        all == [loc \in {"query", "header", "cookie", "body"} |->
                   CASE loc = "query" -> r.params
                     [] loc = "header" -> r.headers
                     [] loc = "cookie" -> r.cookies
                     [] OTHER -> r.json]
    IN  Obj([loc \in {x \in DOMAIN all : ~IsNull(all[x])} |-> all[loc]])

\* C6 as stated: after normalization every required, invisible property with
\* default d is present and equals d unless the input overrides it, and every
\* value supplied for a visible property is kept unchanged.
C6_DefaultsPresentInputsKept ==
    Normalized =>
        LET raw == Obj(call.function_input)
            now == Obj(function_input)
            schema == Parameters(call.function)
        IN  /\ \A e \in RequiredInvisibleDefaults(schema, <<>>) :
                  ValueAt(now, e.path) =
                      IF ValueAt(raw, e.path) # Absent THEN ValueAt(raw, e.path)
                      ELSE e.default
            /\ \A q \in VisibleLeafPaths(schema, <<>>) :
                  ValueAt(raw, q) # Absent => ValueAt(now, q) = ValueAt(raw, q)

\* what normalization leaves of a value: a null is removed
Kept(v) == IF v = Null THEN Absent ELSE v

\* C6 amended: after normalization, and in the request built from it, every
\* required, invisible property with default d equals d when d is not null
\* and the input does not override it, every non-null value supplied for a
\* visible property is kept unchanged, and a property whose value is null (a
\* null default, a supplied null) is absent.
C6_DefaultsPresentNullsRemoved ==
    Normalized =>
        LET raw == Obj(call.function_input)
            now == Obj(function_input)
            schema == Parameters(call.function)
            Expected(path, default) ==
                IF ValueAt(raw, path) # Absent THEN Kept(ValueAt(raw, path))
                ELSE Kept(default)
        IN  /\ \A e \in RequiredInvisibleDefaults(schema, <<>>) :
                  /\ ValueAt(now, e.path) = Expected(e.path, e.default)
                  /\ RequestBuilt =>
                        ValueAt(RequestParts, e.path) = Expected(e.path, e.default)
            /\ \A q \in VisibleLeafPaths(schema, <<>>) :
                  ValueAt(raw, q) # Absent =>
                      /\ ValueAt(now, q) = Kept(ValueAt(raw, q))
                      /\ (RequestBuilt /\ Head(q) # "path") =>
                            ValueAt(RequestParts, q) = Kept(ValueAt(raw, q))

C6_Witness ==
    /\ Normalized
    /\ RequestBuilt
    /\ call.function = "HELLO_WORLD_NESTED_ARGS"
    /\ ValueAt(Obj(call.function_input), <<"body", "person", "title">>) = Absent
    /\ ValueAt(Obj(call.function_input), <<"query">>) = Absent
    /\ ValueAt(RequestParts, <<"body", "person", "title">>) = Str("default-title")
    /\ ValueAt(RequestParts, <<"body", "person", "name">>) = SampleValue
    /\ ValueAt(RequestParts, <<"query", "lang">>) = Str("en")

\* C7: for an API-key linked account whose request was built, the request
\* part named by the scheme's location holds the resolved secret_key under
\* the scheme's name, on top of what the function input put there, and the
\* other three parts are what the function input put there.
C7_ApiKeyWrittenToOnePart ==
    (RequestBuilt /\ call.linked_account.security_scheme = API_KEY) =>
        LET scheme == call.app.api_key_scheme
            secret == Str(built.injection.credentials.secret_key)
            before == built.before
            after == built.injection.parts
            PartOf(loc) == CASE loc = "header" -> "headers"
                             [] loc = "query" -> "query"
                             [] loc = "body" -> "body"
                             [] loc = "cookie" -> "cookies"
        IN  /\ scheme.location \in {"header", "query", "body", "cookie"}
            /\ built.injection.credentials.shape = "api_key"
            /\ \A part \in {"headers", "query", "body", "cookies"} :
                  IF part = PartOf(scheme.location)
                  THEN /\ DOMAIN after[part] = DOMAIN before[part] \cup {scheme.name}
                       /\ after[part][scheme.name] = secret
                       /\ \A key \in DOMAIN before[part] \ {scheme.name} :
                             after[part][key] = before[part][key]
                  ELSE after[part] = before[part]
            /\ built.request.headers = OrNone(after.headers)
            /\ built.request.params = OrNone(after.query)
            /\ built.request.json = OrNone(after.body)
            /\ built.request.cookies = OrNone(after.cookies)

C7_Witness ==
    /\ RequestBuilt
    /\ call.linked_account.security_scheme = API_KEY
    /\ call.app.api_key_scheme.location = "query"
    /\ call.function = "HELLO_WORLD_PATH"
    /\ "header" \in DOMAIN call.function_input
    /\ built.request.params = Obj([x \in {ApiKeyName} |-> Str(AppDefaultKey.secret_key)])
    /\ built.request.headers = Obj(built.before.headers)
    /\ built.request.json = Null
    /\ built.request.cookies = Null

\* C8: for an OAuth2 linked account, the request built carries the header
\* Authorization with the value "Bearer <access_token>", the access token
\* being that of the resolved OAuth2 credentials.
C8_BearerTokenInjected ==
    (RequestBuilt /\ call.linked_account.security_scheme = OAUTH2) =>
        /\ built.injection.credentials.shape = "oauth2"
        /\ IsObj(built.request.headers)
        /\ "Authorization" \in DOMAIN built.request.headers.o
        /\ built.request.headers.o["Authorization"] =
              Str("Bearer " \o built.injection.credentials.access_token)

\* response.text
RawText(r) ==
    CASE r.content.c = "empty" -> Str("")
      [] r.content.c = "text" -> Str(r.content.t)
      [] OTHER -> [k |-> "json_text", of |-> r.content.v]

\* a response arrived and the call has ended
Responded == pc = "done" /\ response # NoResponse

SendFailedOrRefused ==
    \/ send_error # ""
    \/ response # NoResponse /\ ~IsSuccess(response)

\* C11: a call of execute hands at most one request to client.send; once the
\* send has failed or a non-2xx response has arrived the call only goes on to
\* return the failure result, it never sends again.
C11_AtMostOneSend ==
    /\ sent <= 1
    /\ SendFailedOrRefused =>
          /\ sent = 1
          /\ pc \in {"respond", "done"}
          /\ pc = "done" => (outcome.kind = "result" /\ ~outcome.success)

C11_Witness ==
    /\ pc = "done"
    /\ sent = 1
    /\ response # NoResponse
    /\ response.status_code = 404
    /\ steps[Len(steps)] = "send"
    /\ Cardinality({i \in DOMAIN steps : steps[i] = "send"}) = 1
    /\ outcome.kind = "result"
    /\ ~outcome.success

\* the call came in through the execute route
ViaRoute == call # NoCall /\ call.via = "route"

\* the route found the function, an enabled app configuration and an enabled
\* linked account
AllFoundAndEnabled(lookup) ==
    /\ lookup.function.found
    /\ lookup.app_configuration.found /\ lookup.app_configuration.enabled
    /\ lookup.linked_account.found /\ lookup.linked_account.enabled

\* C15: the execute route obtains an executor, and so builds or sends a
\* request, only when the function exists, the app configuration exists and
\* is enabled and the linked account exists and is enabled; otherwise the
\* request ends with the matching error and nothing is built or sent, a
\* disabled linked account giving LinkedAccountDisabled.
C15_RouteGuardsExecution ==
    ViaRoute =>
        /\ (call.executor # "none" \/ built # NotBuilt \/ sent > 0 \/ steps # <<>>) =>
              AllFoundAndEnabled(call.lookup)
        /\ ~AllFoundAndEnabled(call.lookup) =>
              /\ pc = "done"
              /\ outcome.kind = "raised"
              /\ outcome.exc \in {"FunctionNotFound", "AppConfigurationNotFound",
                                  "AppConfigurationDisabled", "LinkedAccountNotFound",
                                  "LinkedAccountDisabled"}
        /\ (/\ call.lookup.function.found
            /\ call.lookup.app_configuration = Row(TRUE)
            /\ call.lookup.linked_account = Row(FALSE)) =>
              outcome = Raised("LinkedAccountDisabled", NoMessage)

C15_Witness ==
    /\ ViaRoute
    /\ call.lookup.function.found
    /\ call.lookup.app_configuration = Row(TRUE)
    /\ call.lookup.linked_account = Row(FALSE)
    /\ pc = "done"
    /\ outcome = Raised("LinkedAccountDisabled", NoMessage)
    /\ sent = 0

\* a call for a linked account (the route found one, or a direct caller
\* passed one) with valid input, past the point where the request is built
CallPastInjection(scheme) ==
    /\ call # NoCall
    /\ "linked_account" \in DOMAIN call
    /\ call.linked_account.security_scheme = scheme
    /\ InputErrors = {}
    /\ pc \in {"send", "respond", "done"}

\* C20: for a linked account whose security scheme is NoAuth the credential
\* injection leaves headers, query, body and cookies as the function input
\* gave them, and the call goes on to send the request.
C20_NoAuthInjectsNothing ==
    CallPastInjection(NO_AUTH) =>
        /\ RequestBuilt
        /\ built.injection.parts = built.before
        /\ pc = "done" => sent = 1

\* the location the scheme of the call's linked account is configured with
\* is one the executor cannot write to
UnsupportedPlacement ==
    \/ /\ call.linked_account.security_scheme = API_KEY
       /\ call.app.api_key_scheme.location \notin {"header", "query", "body", "cookie"}
    \/ /\ call.linked_account.security_scheme = HTTP_BASIC
       /\ call.app.http_basic_scheme.location # "header"

\* C19: when the scheme's location is one the executor cannot target (HTTP
\* Basic anywhere but the header, API key outside header, query, body and
\* cookie) the injection raises, no request part is modified, no request is
\* built or sent and the call ends with that error; with credentials in hand
\* the error is NoImplementationFound.
C19_UnsupportedLocationIsFatal ==
    (InjectionRan /\ UnsupportedPlacement) =>
        /\ built.exc # ""
        /\ built.injection.credentials # NoCredentials => built.exc = "NoImplementationFound"
        /\ built.injection.parts = built.before
        /\ built.request = NoRequest
        /\ pc = "done"
        /\ outcome = Raised(built.exc, NoMessage)
        /\ sent = 0

C19_Witness ==
    /\ InjectionRan
    /\ call.linked_account.security_scheme = HTTP_BASIC
    /\ call.app.http_basic_scheme.location = "query"
    /\ built.injection.credentials = BasicUser
    /\ built.injection.parts = built.before
    /\ outcome = Raised("NoImplementationFound", NoMessage)
    /\ sent = 0

\* the credentials are a non-empty payload of another shape than the scheme's
Mismatched(creds, scheme) == Truthy(creds) /\ creds.shape # scheme

\* C18: whenever the credentials selected for a linked account (its own when
\* non-empty, else the app default) do not have the shape of its security
\* scheme, resolution fails with an error and yields no credentials object.
C18_MismatchedCredentialsRejected ==
    /\ (/\ resolution # NoResolution
        /\ resolution.linked_account.security_scheme \in {API_KEY, OAUTH2}
        /\ Mismatched(ExpectedCredentials(resolution.app, resolution.linked_account),
                      resolution.linked_account.security_scheme)) =>
          /\ resolution.result.exc # ""
          /\ resolution.result.credentials = NoCredentials
    /\ (/\ InjectionRan
        /\ call.linked_account.security_scheme \in {API_KEY, OAUTH2}
        /\ Mismatched(ExpectedCredentials(call.app, call.linked_account),
                      call.linked_account.security_scheme)) =>
          /\ built.exc # ""
          /\ built.injection.credentials = NoCredentials
          /\ sent = 0

CreatedIds == 1..(next_id - 1)

\* C17 as stated: a linked account, once created, stays in the store; it is
\* taken out of use only by enabled = false and can still be retrieved.
C17_NeverRemoved ==
    \A id \in CreatedIds : \E r \in linked_accounts : r.id = id

\* C17 amended: delete_linked_account and delete_linked_accounts remove the
\* rows from the store, after which they cannot be retrieved by id or by
\* key; a row just created or updated can be retrieved.
C17_DeleteRemoves ==
    /\ last_op.op = "delete" =>
          /\ ~get_linked_account_by_id(linked_accounts, last_op.id, last_op.key[1]).found
          /\ ~get_linked_account(linked_accounts, last_op.key[1], last_op.key[2],
                                 last_op.key[3]).found
    /\ last_op.op = "delete_all" =>
          ~\E r \in linked_accounts :
              r.project_id = last_op.project_id /\ r.app_id = last_op.app_id
    /\ last_op.op \in {"create", "update"} /\ last_op.exc = "" =>
          get_linked_account_by_id(linked_accounts, last_op.id, last_op.key[1]).found

C17_Witness ==
    /\ last_op.op = "delete"
    /\ last_op.id \in CreatedIds
    /\ ~get_linked_account_by_id(linked_accounts, last_op.id, last_op.key[1]).found
    /\ linked_accounts # {}

\* C12: the step in which a refresh attempt fails leaves the stored linked
\* accounts, and so the account's access token, refresh token and
\* expires_at, exactly as they were, and the call ends with the error.
C12_FailedRefreshLeavesCredentials ==
    [][\A c \in Callers :
          (refresher[c].pc = "refreshing" /\ refresher'[c].pc # refresher[c].pc
           /\ refresher'[c].pc # "persist") =>
              /\ refresher'[c].pc = "refresh_failed"
              /\ refresher'[c].error \in {"OAuthError", "LinkedAccountOAuth2Error"}
              /\ linked_accounts' = linked_accounts]_vars

C12_Witness ==
    \E c \in Callers :
        /\ refresher[c].pc = "refresh_failed"
        /\ refresher[c].error = "OAuthError"
        /\ StoredCredentials = refresher[c].seen
        /\ StoredCredentials = InitialToken
        /\ time_now > InitialToken.expires_at

TokenState(r) ==
    CASE r.pc = "valid" -> "VALID"
      [] r.pc = "expired" -> "EXPIRED"
      [] r.pc \in {"refreshing", "persist"} -> "REFRESHING"
      [] r.pc = "refresh_failed" -> "REFRESH_FAILED"
      [] OTHER -> "NONE"

\* the transitions of a token's state within a call
TokenTransitions ==
    {<<"NONE", "VALID">>, <<"NONE", "EXPIRED">>, <<"EXPIRED", "REFRESHING">>,
     <<"REFRESHING", "VALID">>, <<"REFRESHING", "REFRESH_FAILED">>,
     <<"VALID", "NONE">>, <<"REFRESH_FAILED", "NONE">>}

FollowsTokenTransitions ==
    \A c \in Callers :
        TokenState(refresher'[c]) # TokenState(refresher[c]) =>
            <<TokenState(refresher[c]), TokenState(refresher'[c])>> \in TokenTransitions

\* the call has read the token and found it usable as it is
ReadAsValid(r) == r.pc = "valid" /\ "refreshed" \notin DOMAIN r

\* C14 as stated: a token read with expires_at <= now (expires_at = now
\* included) counts as EXPIRED, never as VALID; REFRESHING is entered only
\* from EXPIRED and ends only in VALID or REFRESH_FAILED.
C14_ExpiredFromDeadlineOn ==
    /\ [](\A c \in Callers :
            /\ ReadAsValid(refresher[c]) => refresher[c].seen.expires_at > refresher[c].at
            /\ TokenState(refresher[c]) \in {"EXPIRED", "REFRESHING", "REFRESH_FAILED"} =>
                  refresher[c].seen.expires_at <= refresher[c].at)
    /\ [][FollowsTokenTransitions]_vars

\* C14 amended: a token counts as EXPIRED only when expires_at < now; read
\* at expires_at = now it still counts as VALID.  REFRESHING is entered only
\* from EXPIRED and ends only in VALID, with a stored token that expires
\* after the time it was issued, or in REFRESH_FAILED.
C14_ExpiredAfterDeadline ==
    /\ [](\A c \in Callers :
            /\ ReadAsValid(refresher[c]) => refresher[c].seen.expires_at >= refresher[c].at
            /\ TokenState(refresher[c]) \in {"EXPIRED", "REFRESHING", "REFRESH_FAILED"} =>
                  refresher[c].seen.expires_at < refresher[c].at
            /\ (refresher[c].pc = "valid" /\ ~ReadAsValid(refresher[c])) =>
                  refresher[c].seen.expires_at > refresher[c].at)
    /\ [][FollowsTokenTransitions]_vars

\* a call read the token in the second it expires and uses it as VALID,
\* while the other call, having read it later, has refreshed it
C14_Witness ==
    \E c, d \in Callers :
        /\ ReadAsValid(refresher[c])
        /\ refresher[c].seen.expires_at = refresher[c].at
        /\ refresher[d].pc = "valid"
        /\ ~ReadAsValid(refresher[d])
        /\ refresher[d].seen = StoredCredentials

(***************************************************************************)
(* Path templating                                                         *)
(***************************************************************************)
\* the value the call passed for a path parameter, as text
PathParamText(name) ==
    LET i == CHOOSE k \in DOMAIN path_input : path_input[k].name = name
    IN  PathValueText(path_input[i].value)

HasPathParam(name) == \E k \in DOMAIN path_input : path_input[k].name = name

\* the template with every placeholder that has a path parameter replaced by
\* the text of that parameter, and nothing else changed
Substituted ==
    [i \in DOMAIN url_template |->
        IF url_template[i].t = "ph" /\ HasPathParam(url_template[i].s)
        THEN Lit(PathParamText(url_template[i].s))
        ELSE url_template[i]]

\* how a url reads: a placeholder piece reads as the text {name}
RECURSIVE UrlText(_)
UrlText(url) ==
    IF url = <<>> THEN <<>>
    ELSE <<IF Head(url).t = "ph" THEN Braced(Head(url).s) ELSE Head(url).s>>
         \o UrlText(Tail(url))

\* C24: once the URL is built, every {name} placeholder of the function's
\* path that has a path parameter reads as the string form of that
\* parameter's value, unescaped, and the rest of the path is as in the
\* template.
C24_PlaceholdersSubstituted ==
    templating_pc = "done" => UrlText(request_url) = UrlText(Substituted)

(***************************************************************************)
(* Injection against caller-supplied values                                *)
(***************************************************************************)
\* the call went through an executor that writes a credential
WritesApiKey ==
    \/ call.executor = RestAPIKeyFunctionExecutor
    \/ call.executor = RestFunctionExecutor /\ call.linked_account.security_scheme = API_KEY
WritesBasic == call.executor = RestHTTPBasicFunctionExecutor

\* the text the executor resolved for the call, from the app and the linked
\* account alone
CredentialText ==
    IF WritesBasic
    THEN LET prefix == call.app.http_basic_scheme.prefix
             encoded == B64UserPass(call.linked_account.security_credentials)
         IN  IF prefix # "" THEN prefix \o " " \o encoded ELSE encoded
    ELSE DefaultFor(call.app, call.linked_account).secret_key

CredentialScheme ==
    IF WritesBasic THEN call.app.http_basic_scheme ELSE call.app.api_key_scheme

\* the dict of the request that a location names
RequestPart(request, location) ==
    CASE location = "header" -> request.headers
      [] location = "query" -> request.params
      [] location = "body" -> request.json
      [] location = "cookie" -> request.cookies

\* what the caller put under the scheme's name in the scheme's part
CallerSupplied ==
    ValueAt(Obj(call.function_input), <<CredentialScheme.location, CredentialScheme.name>>)

\* C27: in every request built by an executor that injects an API key or
\* HTTP Basic credentials, the value under the scheme's name in the part the
\* scheme's location names is the resolved credential, which is determined
\* by the app and the linked account alone: whatever the caller supplied
\* under that name in that part is overwritten, so calls that differ only
\* in that value send the same credential.
C27_CredentialOverwritesCallerValue ==
    (RequestBuilt /\ (WritesApiKey \/ WritesBasic)) =>
        ValueAt(RequestPart(built.request, CredentialScheme.location),
                <<CredentialScheme.name>>) = Str(CredentialText)

C27_Witness ==
    /\ RequestBuilt
    /\ call.executor = RestAPIKeyFunctionExecutor
    /\ call.app.api_key_scheme.location = "header"
    /\ CallerSupplied = RandomValue
    /\ built.before.headers[ApiKeyName] = RandomValue
    /\ built.request.headers.o[ApiKeyName] = Str(AppDefaultKey.secret_key)
    /\ pc = "done"
    /\ sent = 1

(***************************************************************************)
(* The expiry check of the OAuth2 REST path                                *)
(***************************************************************************)
\* the call went through RestOAuth2FunctionExecutor and OAuth2 credentials
\* were resolved and validated for it
OAuth2Resolved ==
    /\ InjectionRan
    /\ call.executor = RestOAuth2FunctionExecutor
    /\ built.injection.from # "none"
    /\ built.injection.credentials.shape = "oauth2"

ExpiredAtCall == built.injection.credentials.expires_at < time_now

NoRefreshStarted == issued = 0 /\ \A c \in Callers : refresher[c] = IdleRefresher

TokenRead ==
    IF parsing_app = "SLACK" THEN parsing_response.authed_user ELSE parsing_response

\* C25: on the Slack path and the default path alike, a token response
\* parsed at time now that carries expires_in = n, n >= 0, gives credentials
\* with expires_at = now + n, and one without expires_in gives credentials
\* with expires_at unset.
C25_ExpiresAtIsNowPlusExpiresIn ==
    (parsing_result # NotParsed /\ parsing_result.exc = "") =>
        parsing_result.credentials.expires_at =
            (IF TokenRead.has_expires_in THEN parsed_at + TokenRead.expires_in
             ELSE NoExpiry)

(***************************************************************************)
(* The monthly quota, requests handled one at a time                       *)
(***************************************************************************)
\* this step is the handling of request r, from received to answered
RequestHandled(r) ==
    quota_requests[r].pc = "received" /\ quota_requests'[r].pc = "done"

\* the reset is due for the requesting project
ResetDue(project) == current_period_start > api_quota_last_reset[project]

\* the usage that counts for a request of the project: what is stored, or
\* nothing when the reset is due
UsageCounted(project) ==
    IF ResetDue(project) THEN [q \in QuotaProjects |-> 0] ELSE api_quota_monthly_used

\* C21: a quota-counted request is admitted exactly when the monthly usage
\* of the organization, summed over all its projects (as it stands once a
\* due reset is made), is below the plan's api_calls_monthly; an admitted request raises the usage of the requesting
\* project by exactly 1 and no other, a rejected one fails with
\* MonthlyQuotaExceeded (HTTP 402) and changes no counter.
C21_AdmittedBelowLimit ==
    [][\A r \in QuotaRequests : RequestHandled(r) =>
          LET project == quota_requests[r].project
              counted == UsageCounted(project)
          IN  IF SumOver(counted, QuotaProjects) < ApiCallsMonthly
              THEN /\ quota_requests'[r].exc = ""
                   /\ quota_requests'[r].status = HTTP_200_OK
                   /\ api_quota_monthly_used' = [counted EXCEPT ![project] = @ + 1]
              ELSE /\ quota_requests'[r].exc = "MonthlyQuotaExceeded"
                   /\ quota_requests'[r].status = HTTP_402_PAYMENT_REQUIRED
                   /\ api_quota_monthly_used' = api_quota_monthly_used
                   /\ api_quota_last_reset' = api_quota_last_reset]_vars

\* a request of project_1 was rejected with the limit reached by the two
\* projects together, neither alone
C21_Witness ==
    /\ quota_requests["request_1"].pc = "done"
    /\ quota_requests["request_1"].project = "project_1"
    /\ quota_requests["request_1"].status = HTTP_402_PAYMENT_REQUIRED
    /\ api_quota_monthly_used["project_1"] = 1
    /\ api_quota_monthly_used["project_2"] = ApiCallsMonthly - 1
    /\ quota_requests["request_2"].pc = "done"
    /\ quota_requests["request_2"].status = HTTP_200_OK

\* C26: when the subscription's current_period_start is later than the
\* requesting project's api_quota_last_reset, handling the request first
\* sets the monthly usage of every project of the organization to 0 and
\* their last reset to the period start and then counts the request (the
\* requesting project's usage is 1 afterwards, every other project's 0);
\* otherwise nothing is reset.
C26_ResetThenCount ==
    [][\A r \in QuotaRequests : RequestHandled(r) =>
          LET project == quota_requests[r].project
          IN  IF ResetDue(project)
              THEN /\ api_quota_last_reset' =
                         [q \in QuotaProjects |-> current_period_start]
                   /\ api_quota_monthly_used' =
                         [q \in QuotaProjects |-> IF q = project THEN 1 ELSE 0]
                   /\ quota_requests'[r].status = HTTP_200_OK
              ELSE /\ api_quota_last_reset' = api_quota_last_reset
                   /\ \A q \in QuotaProjects :
                         api_quota_monthly_used'[q] >= api_quota_monthly_used[q]]_vars

\* project_2 was counted in the old period; the request of project_1 in the
\* new period reset both projects and counted itself
C26_Witness ==
    /\ quota_requests["request_1"].pc = "done"
    /\ quota_requests["request_1"].project = "project_2"
    /\ quota_requests["request_1"].status = HTTP_200_OK
    /\ ~quota_requests["request_1"].reset
    /\ quota_requests["request_2"].pc = "done"
    /\ quota_requests["request_2"].project = "project_1"
    /\ quota_requests["request_2"].reset
    /\ api_quota_monthly_used = [q \in QuotaProjects |-> IF q = "project_1" THEN 1 ELSE 0]
    /\ api_quota_last_reset = [q \in QuotaProjects |-> 1]
    /\ current_period_start = 1

(***************************************************************************)
(* The monthly quota, requests in progress at the same time                *)
(***************************************************************************)
\* C28: however the quota-counted requests of one organization interleave,
\* the monthly usage summed over its projects never exceeds the plan's
\* api_calls_monthly.
C28_UsageWithinLimit ==
    SumOver(api_quota_monthly_used, QuotaProjects) <= ApiCallsMonthly

(***************************************************************************)
(* The last project of an organization                                     *)
(***************************************************************************)
ProjectsOf(org_id) == get_projects_by_org(projects, org_id)

\* C22: with requests handled one at a time, a delete of the only project
\* of its organization is rejected with ProjectIsLastInOrgError (HTTP 409)
\* and the project stays, and no create or delete takes an organization
\* that has a project to having none.
C22_LastProjectStays ==
    [][/\ \A r \in ProjectRequests, id \in 1..MaxProjectIds :
            (/\ project_requests'[r] # project_requests[r]
             /\ project_requests'[r].op = "delete"
             /\ project_requests'[r].project_id = id
             /\ \E row \in projects :
                   row.id = id /\ ProjectsOf(row.org_id) = {row}) =>
                /\ project_requests'[r].exc = "ProjectIsLastInOrgError"
                /\ project_requests'[r].status = HTTP_409_CONFLICT
                /\ projects' = projects
       /\ \A org \in OrgIds :
            ProjectsOf(org) # {} => get_projects_by_org(projects', org) # {}]_vars

\* the delete of org_1's only project was answered 409 and the project is
\* still there, after an earlier delete in the same organization went through
C22_Witness ==
    /\ project_requests["request_1"].pc = "done"
    /\ project_requests["request_1"].op = "delete"
    /\ project_requests["request_1"].status = HTTP_409_CONFLICT
    /\ project_requests["request_2"].pc = "done"
    /\ project_requests["request_2"].op = "delete"
    /\ project_requests["request_2"].status = HTTP_204_NO_CONTENT
    /\ Cardinality(ProjectsOf("org_1")) = 1
    /\ \E row \in ProjectsOf("org_1") : row.id = project_requests["request_1"].project_id
    /\ ProjectsOf("org_2") = {}

\* C29: however delete requests for different projects of one organization
\* interleave, no step takes an organization that has a project to having
\* none.
C29_NeverZeroProjects ==
    [][\A org \in OrgIds :
          ProjectsOf(org) # {} => get_projects_by_org(projects', org) # {}]_vars

(***************************************************************************)
(* The default project and the default agent of a signup                   *)
(***************************************************************************)
SignupOver(r) ==
    /\ project_requests[r].pc \in {"done", "failed"}
    /\ project_requests[r].op = "signup"

\* C30: once a user-signup webhook call has returned or has failed at any
\* step, either its default project and the default agent of that project
\* are both stored or neither is.
C30_ProjectAndAgentTogether ==
    \A r \in ProjectRequests : SignupOver(r) =>
        LET org_projects == get_projects_by_org(projects, PersonalOrg(r))
        IN  /\ Cardinality(org_projects) <= 1
            /\ \A row \in org_projects : AgentRow(row.id) \in agents
            /\ org_projects = {} =>
                  AgentRow(project_requests[r].project_id) \notin agents

====
